---- MODULE Spec2Model ----
(***************************************************************************)
(* Model of library/std/src/io/stdio.rs: the process-wide standard stream  *)
(* handles (lazy one-time initialisation, the reentrant lock around        *)
(* stdout's LineWriter, the shutdown hook cleanup()) and the raw stream    *)
(* adapters with their bad-descriptor handling.                            *)
(*                                                                         *)
(* The specifications share the variables:                                 *)
(*   Spec        threads using the stdout handle (write, write_all, flush, *)
(*               explicit guards, print with nested print, cleanup);       *)
(*   SpecOnce    concurrent first calls of stdin(), stdout(), stderr();    *)
(*   SpecRaw     calls on StdinRaw / StdoutRaw / StderrRaw against an OS   *)
(*               descriptor that may be closed;                            *)
(*   SpecCapture set_output_capture and print_to, with panics;             *)
(*   SpecStdin   the stdin handle and its Mutex;                           *)
(*   SpecPoison  stdin lock holders that panic;                            *)
(*   SpecLine    stdout's LineWriter at and around its capacity;           *)
(*   SpecStderr  the unbuffered stderr handle;                             *)
(*   SpecGuards  explicit StdoutLock / StderrLock guards of two threads;   *)
(*   SpecFair    SpecGuards' locking under weak fairness of each thread;   *)
(*   SpecConsole libtest's console reporter (test/src/console.rs);         *)
(*   SpecTidy    tidy's external-dependency check (tidy/src/extdeps.rs);   *)
(*   SpecSink    print_to with arguments that call set_output_capture,     *)
(*               fail or panic;                                            *)
(*   SpecReport  the reporter handling a result statement by statement;    *)
(*   SpecShutdown cleanup() next to the three accessors.                   *)
(*                                                                         *)
(* In Spec the "raw stream" is the StdoutRaw adapter: rawOut records the   *)
(* bytes handed to it, in order.  What the adapter then does with the OS   *)
(* result is the subject of SpecRaw.                                       *)
(***************************************************************************)
EXTENDS Integers, Sequences, FiniteSets, TLC

VARIABLES
    once,         \* SyncOnceCell state of each stream's static instance
    instance,     \* identity of the instance stored in each cell (0: none)
    created,      \* how many times each stream's initializer closure ran
    handle,       \* handle[t][k]: instance the last k() call of t returned
    owner,        \* ReentrantMutex of STDOUT: owning thread (0: none)
    count,        \* ReentrantMutex of STDOUT: number of live acquisitions
    lw,           \* the LineWriter<StdoutRaw> in the RefCell: [buf, cap]
    borrow,       \* RefCell borrow flag: thread inside borrow_mut() (0: none)
    rawOut,       \* bytes handed to StdoutRaw, in order
    stk,          \* stk[t]: call stack of thread t (sequence of frames)
    guards,       \* guards[t]: StdoutLock guards thread t keeps in variables
    log,          \* history: bytes of the calls, in lock acquisition order
    ops,          \* history: number of top-level calls started
    cleanupState, \* history: outcome of the shutdown hook
    rawFd,        \* SpecRaw: bytes that reached each OS descriptor
    rawIn,        \* SpecRaw: bytes the caller's read buffer received
    rawCall,      \* SpecRaw: the last adapter call, its number, the OS outcome
    rawRet,       \* SpecRaw: what the last adapter call returned
    captureUsed,  \* OUTPUT_CAPTURE_USED
    slot,         \* slot[t]: OUTPUT_CAPTURE of thread t (0: None, else a sink)
    tlsAlive,     \* tlsAlive[t]: the thread-local key of t is not destroyed
    sinkBuf,      \* sinkBuf[s]: the Vec<u8> of capture sink s
    sinkOwner,    \* sinkOwner[s]: thread holding the Mutex of sink s (0: none)
    gOut,         \* gOut[k]: bytes print calls sent to the global handle k
    lastRet,      \* history: lastRet[t]: what t's last set_output_capture returned
    printed,      \* history: printed[s]: texts of the calls that locked sink s
    sinkPoison,   \* sinkPoison[s]: the Mutex of sink s is poisoned
    panicMsg,     \* panicMsg[t]: stream and error named by t's last panic
    lastArg,      \* history: lastArg[t]: argument of t's last set_output_capture
    stdinLocked,  \* the Mutex of stdin is locked
    stdinPoison,  \* the Mutex of stdin is poisoned
    stdinGuards,  \* stdinGuards[t]: StdinLock guards thread t holds
    stdinReader,  \* thread inside a method of the BufReader (0: none)
    errOwner,     \* thread owning stderr's ReentrantMutex (0: free)
    errCount,     \* its re-entry count
    errGuards,    \* errGuards[t]: StderrLock guards thread t keeps
    rawErr,       \* bytes handed to StderrRaw, in order
    errDone,      \* history: bytes of the stderr writes that returned, in order of return
    st,           \* the reporter's ConsoleTestState
    run,          \* run_tests_console: its place, the tests, the events delivered
    tidy          \* tidy's extdeps::check: the file, the bad flag, the line it is at

stdoutVars == <<owner, count, lw, borrow, rawOut, stk, guards, log, ops, cleanupState>>
onceVars == <<once, instance, created, handle>>
rawVars == <<rawFd, rawIn, rawCall, rawRet>>
captureVars == <<captureUsed, slot, tlsAlive, sinkBuf, sinkOwner, gOut, lastRet, printed, sinkPoison, panicMsg, lastArg>>
\* The variables of the specifications that do not use the stdout handle.
stdinVars == <<stdinLocked, stdinPoison, stdinGuards, stdinReader>>
stderrVars == <<errOwner, errCount, errGuards, rawErr, errDone>>
consoleVars == <<st, run>>
extVars == <<stderrVars, consoleVars, tidy>>
otherVars == <<rawVars, captureVars, stdinVars, extVars>>
vars == <<once, instance, created, handle, owner, count, lw, borrow, rawOut,
          stk, guards, log, ops, cleanupState, rawFd, rawIn, rawCall, rawRet,
          captureUsed, slot, tlsAlive, sinkBuf, sinkOwner, gOut, lastRet, printed,
          sinkPoison, panicMsg, lastArg, stdinLocked, stdinPoison, stdinGuards, stdinReader,
          errOwner, errCount, errGuards, rawErr, errDone, st, run, tidy>>

(***************************************************************************)
(* Bounds and input sets.                                                  *)
(***************************************************************************)
Threads == {1, 2}
Kinds == {"stdin", "stdout", "stderr"}

\* Top-level calls started in one run.
MaxOps == 3

\* Capacity LineWriter::new gives stdout's buffer (scaled down).
LineCap == 4

NL == "\n"

\* Buffers handed to write / write_all.
Data == { <<"a">>, <<"b", NL>>, <<"c", NL, "d">> }

Methods == {"write", "write_all", "flush"}

\* Format arguments of a print call: a sequence of pieces.  A piece is a
\* literal, or an argument whose Display impl itself prints its text.
Lit(s) == [lit |-> s, nested |-> FALSE]
Arg(s) == [lit |-> s, nested |-> TRUE]
FmtLine == << Lit(<<"h", "i", NL>>) >>
FmtOuter == << Lit(<<"o", "u", "t", "e", "r", ":">>), Arg(<<"i", "n", "n", "e", "r">>) >>
Formats == {FmtLine, FmtOuter}

(***************************************************************************)
(* Sequences.                                                              *)
(***************************************************************************)
Take(s, n) == SubSeq(s, 1, n)
Drop(s, n) == SubSeq(s, n + 1, Len(s))
Min(a, b) == IF a <= b THEN a ELSE b
IsPrefix(p, s) == Len(p) <= Len(s) /\ Take(s, Len(p)) = p
HasNL(s) == \E i \in 1..Len(s) : s[i] = NL
\* memrchr(b'\n', s) + 1: the length of the part up to the last newline.
LinesLen(s) == IF HasNL(s) THEN CHOOSE i \in 1..Len(s) : s[i] = NL /\ \A j \in (i+1)..Len(s) : s[j] # NL ELSE 0

RECURSIVE FmtText(_)
\* The text a format renders to.
FmtText(f) == IF f = <<>> THEN <<>> ELSE Head(f).lit \o FmtText(Tail(f))

(***************************************************************************)
(* LineWriter<StdoutRaw> / BufWriter over [buf, cap] and the raw stream.   *)
(* A state here is [buf, cap, raw, n]: n is the count the call returns.    *)
(* Every call is done in two parts, split where the second raw write may   *)
(* happen: Pre (the flushes that make room) and Emit (the data itself).    *)
(***************************************************************************)
St(b, c, r, k) == [buf |-> b, cap |-> c, raw |-> r, n |-> k]

\* BufWriter::flush_buf
flush_buf(s) == St(<<>>, s.cap, s.raw \o s.buf, s.n)

\* LineWriterShim::flush_if_completed_line
flush_if_completed_line(s) == IF s.buf # <<>> /\ s.buf[Len(s.buf)] = NL THEN flush_buf(s) ELSE s

\* BufWriter::write / write_all, first half: make room.
BufWriter_room(s, d) == IF Len(s.buf) + Len(d) > s.cap THEN flush_buf(s) ELSE s

\* BufWriter::write / write_all, second half: pass through or buffer.
BufWriter_put(s, d) == IF Len(d) >= s.cap THEN St(s.buf, s.cap, s.raw \o d, Len(d)) ELSE St(s.buf \o d, s.cap, s.raw, Len(d))

\* BufWriter::write_all
BufWriter_write_all(s, d) == BufWriter_put(BufWriter_room(s, d), d)

\* LineWriterShim::write, up to the write of the data.
LineWriter_write_pre(s, d) == IF HasNL(d) THEN flush_buf(s) ELSE BufWriter_room(flush_if_completed_line(s), d)

\* LineWriterShim::write, the data: lines go to the raw stream, as much of
\* the tail as fits is buffered.
LineWriter_write_emit(s, d) ==
    IF ~HasNL(d) THEN BufWriter_put(s, d)
    ELSE LET k == LinesLen(d)
             tail == Drop(d, k)
             amt == Min(Len(tail), s.cap - Len(s.buf))
         IN St(s.buf \o Take(tail, amt), s.cap, s.raw \o Take(d, k), k + amt)

\* LineWriterShim::write_all, up to and including the lines.
LineWriter_write_all_pre(s, d) ==
    IF ~HasNL(d) THEN BufWriter_room(flush_if_completed_line(s), d)
    ELSE LET lines == Take(d, LinesLen(d))
         IN IF s.buf = <<>> THEN St(s.buf, s.cap, s.raw \o lines, s.n)
            ELSE flush_buf(BufWriter_write_all(s, lines))

\* LineWriterShim::write_all, the tail.
LineWriter_write_all_emit(s, d) ==
    IF ~HasNL(d) THEN BufWriter_put(s, d)
    ELSE LET r == BufWriter_write_all(s, Drop(d, LinesLen(d))) IN St(r.buf, r.cap, r.raw, Len(d))

\* LineWriter::flush: flush_buf, then the raw stream's flush (no bytes).
LineWriter_flush(s) == St(<<>>, s.cap, s.raw \o s.buf, 0)

LineWriter_pre(m, s, d) ==
    CASE m = "write" -> LineWriter_write_pre(s, d)
      [] m = "write_all" -> LineWriter_write_all_pre(s, d)
      [] OTHER -> LineWriter_flush(s)

LineWriter_emit(m, s, d) ==
    CASE m = "write" -> LineWriter_write_emit(s, d)
      [] m = "write_all" -> LineWriter_write_all_emit(s, d)
      [] OTHER -> St(s.buf, s.cap, s.raw, 0)

\* LineWriter::new(stdout_raw()) and LineWriter::with_capacity(c, ..)
LineWriter_with_capacity(c) == [buf |-> <<>>, cap |-> c]
LineWriter_new == LineWriter_with_capacity(LineCap)

Cur == St(lw.buf, lw.cap, rawOut, 0)

(***************************************************************************)
(* Call stacks.                                                            *)
(***************************************************************************)
\* A frame: the function, the place in it, its buffer (for a print, the text
\* its arguments render to), the pieces still to write, a flag (a write:
\* called on the handle, not on a guard; a print: called while rendering an
\* argument), and whether it was called after the shutdown hook returned.
HookDone == cleanupState \in {"noinstance", "skipped", "swapped"}
Frame(op, pc, data, pieces, flag) == [op |-> op, pc |-> pc, data |-> data, pieces |-> pieces, flag |-> flag, after |-> HookDone]
Idle(t) == stk[t] = <<>>
Top(t) == stk[t][Len(stk[t])]
At(t, op, pc) == ~Idle(t) /\ Top(t).op = op /\ Top(t).pc = pc
Push(t, f) == stk' = [stk EXCEPT ![t] = Append(@, f)]
Pop(t) == stk' = [stk EXCEPT ![t] = SubSeq(@, 1, Len(@) - 1)]
Goto(t, pc) == stk' = [stk EXCEPT ![t][Len(stk[t])].pc = pc]
\* Set the caller's continuation, then enter the callee.
Call(t, pc, f) == stk' = [stk EXCEPT ![t] = Append([@ EXCEPT ![Len(@)].pc = pc], f)]
Begin(t) == Idle(t) /\ ops < MaxOps /\ ops' = ops + 1

Others(t) == Threads \ {t}

(***************************************************************************)
(* SyncOnceCell::get_or_init / get_or_init_pin on the static instance of   *)
(* stream k: the fast path, Once::call_once, the initializer closure.      *)
(***************************************************************************)
\* The value the accessor returns: a handle to the instance in the cell.
Return(t, k, i) == /\ handle' = [handle EXCEPT ![t][k] = i]
                   /\ Pop(t)

\* if let Some(value) = self.get() { return value }
get_or_init_get(t, k) ==
    /\ At(t, k, "get")
    /\ IF once[k] = "complete"
       THEN Return(t, k, instance[k])
       ELSE Goto(t, "call_once") /\ UNCHANGED handle
    /\ UNCHANGED <<once, instance, created>>

\* Once::call_once: one caller runs the closure, the others wait for it.
get_or_init_call_once(t, k) ==
    /\ At(t, k, "call_once")
    /\ once[k] # "running"
    /\ IF once[k] = "incomplete"
       THEN /\ once' = [once EXCEPT ![k] = "running"]
            /\ Goto(t, "init")
            /\ UNCHANGED handle
       ELSE /\ Return(t, k, instance[k])
            /\ UNCHANGED once
    /\ UNCHANGED <<instance, created>>

\* The closure: build the instance, store it, mark the cell complete.
get_or_init_init(t, k) ==
    /\ At(t, k, "init")
    /\ created' = [created EXCEPT ![k] = @ + 1]
    /\ instance' = [instance EXCEPT ![k] = created[k] + 1]
    /\ once' = [once EXCEPT ![k] = "complete"]
    /\ Return(t, k, created[k] + 1)

get_or_init(t, k) ==
    \/ get_or_init_get(t, k)
    \/ get_or_init_call_once(t, k)
    \/ get_or_init_init(t, k)

\* A fresh instance on every call, as if the cell were not static.
stdout_Fresh(t) ==
    /\ At(t, "stdout", "get")
    /\ created' = [created EXCEPT !["stdout"] = @ + 1]
    /\ instance' = [instance EXCEPT !["stdout"] = created["stdout"] + 1]
    /\ once' = [once EXCEPT !["stdout"] = "complete"]
    /\ Return(t, "stdout", created["stdout"] + 1)
    /\ lw' = LineWriter_new

\* pub fn stdout() -> Stdout: the closure builds LineWriter::new(stdout_raw()).
stdout(t) ==
    /\ get_or_init(t, "stdout")
    /\ lw' = IF At(t, "stdout", "init") THEN LineWriter_new ELSE lw

\* pub fn stdin() -> Stdin
stdin(t) == get_or_init(t, "stdin") /\ UNCHANGED lw

\* pub fn stderr() -> Stderr
stderr(t) == get_or_init(t, "stderr") /\ UNCHANGED lw

\* A thread calls one of the accessors.
CallAccessor(t, k) ==
    /\ Begin(t)
    /\ Push(t, Frame(k, "get", <<>>, <<>>, FALSE))
    /\ UNCHANGED <<onceVars, owner, count, lw, borrow, rawOut, guards, log, cleanupState, otherVars>>

Accessor(t) ==
    /\ stdout(t) \/ stdin(t) \/ stderr(t)
    /\ UNCHANGED <<owner, count, borrow, rawOut, guards, log, ops, cleanupState, otherVars>>

(***************************************************************************)
(* ReentrantMutex (sys_common::remutex): the owner and its re-entry count. *)
(***************************************************************************)
Free(t) == count = 0 \/ owner = t

ReentrantMutex_lock(t) ==
    /\ Free(t)
    /\ owner' = t
    /\ count' = count + 1

ReentrantMutex_try_lock(t, ok) ==
    IF Free(t)
    THEN ok /\ owner' = t /\ count' = count + 1
    ELSE ~ok /\ UNCHANGED <<owner, count>>

ReentrantMutex_unlock ==
    /\ count' = count - 1
    /\ owner' = IF count = 1 THEN 0 ELSE owner

\* A lock that lets a second thread in.
Stdout_lock_NoExclusion(t) ==
    /\ owner' = t
    /\ count' = count + 1

\* A lock that its own holder cannot take again.
Stdout_lock_NonReentrant(t) ==
    /\ count = 0
    /\ owner' = t
    /\ count' = count + 1

\* Stdout::lock: StdoutLock { inner: self.inner.lock() }
Stdout_lock(t) == ReentrantMutex_lock(t)

\* Mutation: the guard goes away and the mutex stays locked, as when the
\* release is lost.
StdoutLock_drop_Kept == UNCHANGED <<owner, count>>

\* Mutation: dropping any StdoutLock releases the mutex.
StdoutLock_drop_ReleasesAll ==
    /\ count' = 0
    /\ owner' = 0

\* A StdoutLock going out of scope releases one acquisition.
StdoutLock_drop == ReentrantMutex_unlock

(***************************************************************************)
(* Write for &Stdout (self.lock().m(buf)) and Write for StdoutLock         *)
(* (self.inner.borrow_mut().m(buf)).                                       *)
(***************************************************************************)
Args(m) == IF m = "flush" THEN {<<>>} ELSE Data

\* io::stdout().m(d): the call starts by getting the handle.
CallHandle(t, m, d) ==
    /\ Begin(t)
    /\ Push(t, Frame(m, "stdout", d, <<>>, TRUE))
    /\ UNCHANGED <<onceVars, owner, count, lw, borrow, rawOut, guards, log, cleanupState, otherVars>>

\* guard.m(d) on a StdoutLock the thread holds.
CallGuard(t, m, d) ==
    /\ Begin(t)
    /\ guards[t] > 0
    /\ Push(t, Frame(m, "borrow", d, <<>>, FALSE))
    /\ log' = log \o d
    /\ UNCHANGED <<onceVars, owner, count, lw, borrow, rawOut, guards, cleanupState, otherVars>>

HandleStdout(t, m) ==
    /\ At(t, m, "stdout")
    /\ Call(t, "lock", Frame("stdout", "get", <<>>, <<>>, FALSE))
    /\ UNCHANGED <<onceVars, owner, count, lw, borrow, rawOut, guards, log, ops, cleanupState, otherVars>>

\* impl Write for &Stdout: self.lock()
HandleLock(t, m) ==
    /\ At(t, m, "lock")
    /\ Stdout_lock(t)
    /\ Goto(t, "borrow")
    /\ log' = log \o Top(t).data
    /\ UNCHANGED <<onceVars, lw, borrow, rawOut, guards, ops, cleanupState, otherVars>>

\* Mutation of the write through a StdoutLock: the first part does not run
\* the LineWriter's flushes.
StdoutLock_pre_NoFlush(t, m) ==
    /\ At(t, m, "borrow")
    /\ borrow' = t
    /\ Goto(t, "emit")
    /\ UNCHANGED <<onceVars, owner, count, lw, rawOut, guards, log, ops, cleanupState, otherVars>>

\* impl Write for StdoutLock: self.inner.borrow_mut().m(buf), first part.
StdoutLock_pre(t, m) ==
    /\ At(t, m, "borrow")
    /\ borrow' = t
    /\ LET r == LineWriter_pre(m, Cur, Top(t).data)
       IN /\ lw' = [buf |-> r.buf, cap |-> r.cap]
          /\ rawOut' = r.raw
    /\ Goto(t, "emit")
    /\ UNCHANGED <<onceVars, owner, count, guards, log, ops, cleanupState, otherVars>>

\* impl Write for StdoutLock: second part; the RefMut is dropped and the call
\* returns n.  Bytes a write() did not accept are not bytes of the call.
StdoutLock_emit(t, m) ==
    /\ At(t, m, "emit")
    /\ borrow' = 0
    /\ LET d == Top(t).data
           r == LineWriter_emit(m, Cur, d)
       IN /\ lw' = [buf |-> r.buf, cap |-> r.cap]
          /\ rawOut' = r.raw
          /\ log' = IF m = "write" THEN Take(log, Len(log) - (Len(d) - r.n)) ELSE log
    /\ IF Top(t).flag THEN Goto(t, "unlock") ELSE Pop(t)
    /\ UNCHANGED <<onceVars, owner, count, guards, ops, cleanupState, otherVars>>

\* impl Write for &Stdout: the temporary StdoutLock is dropped.
HandleUnlock(t, m) ==
    /\ At(t, m, "unlock")
    /\ StdoutLock_drop
    /\ Pop(t)
    /\ UNCHANGED <<onceVars, lw, borrow, rawOut, guards, log, ops, cleanupState, otherVars>>

(***************************************************************************)
(* Guards kept by the caller: let g = io::stdout().lock(); drop(g);        *)
(* mem::forget(g).                                                         *)
(***************************************************************************)
CallLock(t) ==
    /\ Begin(t)
    /\ Push(t, Frame("lock", "stdout", <<>>, <<>>, FALSE))
    /\ UNCHANGED <<onceVars, owner, count, lw, borrow, rawOut, guards, log, cleanupState, otherVars>>

LockStdout(t) ==
    /\ At(t, "lock", "stdout")
    /\ Call(t, "lock", Frame("stdout", "get", <<>>, <<>>, FALSE))
    /\ UNCHANGED <<onceVars, owner, count, lw, borrow, rawOut, guards, log, ops, cleanupState, otherVars>>

LockAcquire(t) ==
    /\ At(t, "lock", "lock")
    /\ Stdout_lock(t)
    /\ guards' = [guards EXCEPT ![t] = @ + 1]
    /\ Pop(t)
    /\ UNCHANGED <<onceVars, lw, borrow, rawOut, log, ops, cleanupState, otherVars>>

DropGuard(t) ==
    /\ Begin(t)
    /\ guards[t] > 0
    /\ guards' = [guards EXCEPT ![t] = @ - 1]
    /\ StdoutLock_drop
    /\ UNCHANGED <<onceVars, lw, borrow, rawOut, stk, log, cleanupState, otherVars>>

LeakGuard(t) ==
    /\ Begin(t)
    /\ guards[t] > 0
    /\ guards' = [guards EXCEPT ![t] = @ - 1]
    /\ UNCHANGED <<onceVars, owner, count, lw, borrow, rawOut, stk, log, cleanupState, otherVars>>

(***************************************************************************)
(* _print -> print_to(args, stdout, "stdout"), with no capture sink in     *)
(* use: global_s().write_fmt(args).  write_fmt takes the lock once and     *)
(* writes the pieces one by one with write_all; rendering an argument may  *)
(* print again on the same thread.                                         *)
(***************************************************************************)
CallPrint(t, f) ==
    /\ Begin(t)
    /\ Push(t, Frame("print", "global_s", FmtText(f), f, FALSE))
    /\ UNCHANGED <<onceVars, owner, count, lw, borrow, rawOut, guards, log, cleanupState, otherVars>>

\* global_s()
PrintGlobal(t) ==
    /\ At(t, "print", "global_s")
    /\ Call(t, "lock", Frame("stdout", "get", <<>>, <<>>, FALSE))
    /\ UNCHANGED <<onceVars, owner, count, lw, borrow, rawOut, guards, log, ops, cleanupState, otherVars>>

\* impl Write for &Stdout: write_fmt is self.lock().write_fmt(args)
PrintLock(t) ==
    /\ At(t, "print", "lock")
    /\ Stdout_lock(t)
    /\ Goto(t, "fmt")
    /\ log' = IF Top(t).flag THEN log ELSE log \o Top(t).data
    /\ UNCHANGED <<onceVars, lw, borrow, rawOut, guards, ops, cleanupState, otherVars>>

\* The next piece: a literal goes to write_all on the guard, an argument is
\* rendered, and its rendering prints.
PrintPiece(t) ==
    /\ At(t, "print", "fmt")
    /\ Top(t).pieces # <<>>
    /\ LET p == Head(Top(t).pieces)
           callee == IF p.nested
                     THEN Frame("print", "global_s", p.lit, <<Lit(p.lit)>>, TRUE)
                     ELSE Frame("write_all", "borrow", p.lit, <<>>, FALSE)
       IN stk' = [stk EXCEPT ![t] = Append([@ EXCEPT ![Len(@)].pieces = Tail(@)], callee)]
    /\ UNCHANGED <<onceVars, owner, count, lw, borrow, rawOut, guards, log, ops, cleanupState, otherVars>>

\* All pieces written: the temporary StdoutLock is dropped.
PrintUnlock(t) ==
    /\ At(t, "print", "fmt")
    /\ Top(t).pieces = <<>>
    /\ StdoutLock_drop
    /\ Pop(t)
    /\ UNCHANGED <<onceVars, lw, borrow, rawOut, guards, log, ops, cleanupState, otherVars>>

(***************************************************************************)
(* pub fn cleanup(): the shutdown hook, invoked once by the runtime.       *)
(***************************************************************************)
CallCleanup(t) ==
    /\ Begin(t)
    /\ cleanupState = "none"
    /\ cleanupState' = "running"
    /\ Push(t, Frame("cleanup", "get", <<>>, <<>>, FALSE))
    /\ UNCHANGED <<onceVars, owner, count, lw, borrow, rawOut, guards, log, otherVars>>

\* Mutation of cleanup_get: the hook goes on whether or not stdout exists.
cleanup_get_Unchecked(t) ==
    /\ At(t, "cleanup", "get")
    /\ Goto(t, "try_lock")
    /\ UNCHANGED <<owner, count, lw, rawOut, cleanupState>>

\* if let Some(instance) = STDOUT.get()
cleanup_get(t) ==
    /\ At(t, "cleanup", "get")
    /\ IF once["stdout"] = "complete"
       THEN Goto(t, "try_lock") /\ UNCHANGED cleanupState
       ELSE Pop(t) /\ cleanupState' = "noinstance"
    /\ UNCHANGED <<owner, count, lw, rawOut>>

\* A hook that waits for the lock.
cleanup_try_lock_Blocking(t) ==
    /\ At(t, "cleanup", "try_lock")
    /\ ReentrantMutex_lock(t)
    /\ Goto(t, "replace")
    /\ UNCHANGED <<lw, rawOut, cleanupState>>

\* A hook that goes on without the lock.
cleanup_try_lock_Ignored(t) ==
    /\ At(t, "cleanup", "try_lock")
    /\ Goto(t, "replace")
    /\ UNCHANGED <<owner, count, lw, rawOut, cleanupState>>

\* if let Some(lock) = Pin::static_ref(instance).try_lock()
cleanup_try_lock(t) ==
    /\ At(t, "cleanup", "try_lock")
    /\ \E ok \in BOOLEAN :
          /\ ReentrantMutex_try_lock(t, ok)
          /\ IF ok
             THEN Goto(t, "replace") /\ UNCHANGED cleanupState
             ELSE Pop(t) /\ cleanupState' = "skipped"
    /\ UNCHANGED <<lw, rawOut>>

\* A replacement that keeps the default capacity.
cleanup_replace_Buffered(t) ==
    /\ At(t, "cleanup", "replace")
    /\ rawOut' = rawOut \o lw.buf
    /\ lw' = LineWriter_new
    /\ cleanupState' = "swapped"
    /\ Goto(t, "drop")
    /\ UNCHANGED <<owner, count>>

\* A replacement that forgets the old writer instead of dropping it.
cleanup_replace_NoFlush(t) ==
    /\ At(t, "cleanup", "replace")
    /\ rawOut' = rawOut
    /\ lw' = LineWriter_with_capacity(0)
    /\ cleanupState' = "swapped"
    /\ Goto(t, "drop")
    /\ UNCHANGED <<owner, count>>

\* *lock.borrow_mut() = LineWriter::with_capacity(0, stdout_raw()): the old
\* LineWriter is dropped, and dropping its BufWriter flushes the buffer.
cleanup_replace(t) ==
    /\ At(t, "cleanup", "replace")
    /\ rawOut' = flush_buf(Cur).raw
    /\ lw' = LineWriter_with_capacity(0)
    /\ cleanupState' = "swapped"
    /\ Goto(t, "drop")
    /\ UNCHANGED <<owner, count>>

\* The guard `lock` goes out of scope.
cleanup_drop(t) ==
    /\ At(t, "cleanup", "drop")
    /\ StdoutLock_drop
    /\ Pop(t)
    /\ UNCHANGED <<lw, rawOut, cleanupState>>

cleanup(t) ==
    /\ \/ cleanup_get(t)
       \/ cleanup_try_lock(t)
       \/ cleanup_replace(t)
       \/ cleanup_drop(t)
    /\ UNCHANGED <<onceVars, borrow, guards, log, ops, otherVars>>

(***************************************************************************)
(* Spec: threads using the stdout handle.                                  *)
(***************************************************************************)
InitOnce ==
    /\ once = [k \in Kinds |-> "incomplete"]
    /\ instance = [k \in Kinds |-> 0]
    /\ created = [k \in Kinds |-> 0]
    /\ handle = [t \in Threads |-> [k \in Kinds |-> 0]]

InitHandle ==
    /\ owner = 0
    /\ count = 0
    /\ lw = LineWriter_new
    /\ borrow = 0
    /\ rawOut = <<>>
    /\ stk = [t \in Threads |-> <<>>]
    /\ guards = [t \in Threads |-> 0]
    /\ log = <<>>
    /\ cleanupState = "none"

InitStdout == InitHandle /\ ops = 0

InitRawIdle ==
    /\ rawFd = <<>>
    /\ rawIn = <<>>
    /\ rawCall = <<>>
    /\ rawRet = <<>>

Sinks == {1}
\* Every sink a run may install (SpecCapture installs those of Sinks).
SinkIds == {1, 2}
Streams == {"stdout", "stderr"}

InitCapture ==
    /\ captureUsed = FALSE
    /\ slot = [t \in Threads |-> 0]
    /\ tlsAlive = [t \in Threads |-> TRUE]
    /\ sinkBuf = [s \in SinkIds |-> <<>>]
    /\ sinkOwner = [s \in SinkIds |-> 0]
    /\ gOut = [k \in Streams |-> <<>>]
    /\ lastRet = [t \in Threads |-> 0]
    /\ printed = [s \in SinkIds |-> <<>>]
    /\ sinkPoison = [s \in SinkIds |-> FALSE]
    /\ panicMsg = [t \in Threads |-> <<>>]
    /\ lastArg = [t \in Threads |-> 0]

InitStdin ==
    /\ stdinLocked = FALSE
    /\ stdinPoison = FALSE
    /\ stdinGuards = [t \in Threads |-> 0]
    /\ stdinReader = 0

InitStderr ==
    /\ errOwner = 0
    /\ errCount = 0
    /\ errGuards = [t \in Threads |-> 0]
    /\ rawErr = <<>>
    /\ errDone = <<>>

AllTests == {"t1", "t2", "t3"}

\* Before run_tests_console and before check() are called.
\* ConsoleTestState::new(opts): log_out is whether opts names a log file.
ConsoleTestState_new(logfile) ==
    [log_out |-> logfile, total |-> 0, passed |-> 0, failed |-> 0, ignored |-> 0,
     allowed_fail |-> 0, filtered_out |-> 0, measured |-> 0, metrics |-> {},
     failures |-> <<>>, not_failures |-> <<>>, time_failures |-> <<>>]

InitConsole ==
    /\ st = ConsoleTestState_new(FALSE)
    /\ run = [pc |-> "none", tests |-> {}, phase |-> [i \in AllTests |-> "none"], seen |-> {}, nres |-> 0]

InitTidy == tidy = [pc |-> "none", lines |-> <<>>, i |-> 1, bad |-> FALSE, bad0 |-> FALSE, errors |-> <<>>]

InitExt == InitStderr /\ InitConsole /\ InitTidy

Init == InitOnce /\ InitStdout /\ InitRawIdle /\ InitCapture /\ InitStdin /\ InitExt

Next ==
    \E t \in Threads :
        \/ \E m \in Methods : \E d \in Args(m) : CallHandle(t, m, d)
        \/ \E m \in Methods : \E d \in Args(m) : CallGuard(t, m, d)
        \/ \E m \in Methods : HandleStdout(t, m)
        \/ \E m \in Methods : HandleLock(t, m)
        \/ \E m \in Methods : StdoutLock_pre(t, m)
        \/ \E m \in Methods : StdoutLock_emit(t, m)
        \/ \E m \in Methods : HandleUnlock(t, m)
        \/ Accessor(t)
        \/ CallLock(t)
        \/ LockStdout(t)
        \/ LockAcquire(t)
        \/ DropGuard(t)
        \/ LeakGuard(t)
        \/ \E f \in Formats : CallPrint(t, f)
        \/ PrintGlobal(t)
        \/ PrintLock(t)
        \/ PrintPiece(t)
        \/ PrintUnlock(t)
        \/ CallCleanup(t)
        \/ cleanup(t)

Spec == Init /\ [][Next]_vars

(***************************************************************************)
(* SpecOnce: threads racing through the three accessors.                   *)
(***************************************************************************)
NextOnce ==
    \E t \in Threads :
        \/ \E k \in Kinds : CallAccessor(t, k)
        \/ Accessor(t)

SpecOnce == Init /\ [][NextOnce]_vars

(***************************************************************************)
(* Properties of the stdout handle.                                        *)
(***************************************************************************)
Sink == rawOut \o lw.buf
Suffix(s, n) == SubSeq(s, Len(s) - n + 1, Len(s))

\* A frame whose bytes are in the log and not all written yet.
Pending(f) ==
    \/ f.op \in Methods /\ f.pc \in {"borrow", "emit"}
    \/ f.op = "print" /\ f.pc = "fmt" /\ f.pieces # <<>>
    \/ f.op = "print" /\ f.flag /\ f.pc \in {"global_s", "lock"}
Quiet == \A t \in Threads : \A i \in 1..Len(stk[t]) : ~Pending(stk[t][i])

\* The step of thread t that takes the stdout lock, whatever call it is in.
AtLock(t) == ~Idle(t) /\ Top(t).pc = "lock"
LockStep(t) ==
    \/ \E m \in Methods : HandleLock(t, m)
    \/ LockAcquire(t)
    \/ PrintLock(t)

\* C1: the bytes that reached the sink (the raw stream, then the buffer) are
\* the bytes of the calls concatenated in the order the calls took the lock:
\* always a prefix of that concatenation, and all of it when no call is in
\* the middle of writing.  No call's bytes are split by another call's.
C1_SinkIsCallsInLockOrder ==
    /\ IsPrefix(Sink, log)
    /\ Quiet => Sink = log

\* C1 witness: a write through the handle has just written behind an earlier
\* call's bytes while another thread waits for the lock with its own write.
C1_Witness ==
    \E t \in Threads : \E u \in Others(t) :
        /\ At(t, "write", "unlock")
        /\ At(u, "write", "lock")
        /\ Len(log) > Len(Top(t).data)
        /\ Sink = log

\* C2: a thread that holds the stdout lock takes it again without blocking
\* while every other thread is kept out, and when a print whose argument
\* printed on the same thread has written all its pieces, the sink ends with
\* the outer text followed by the nested text ("outer:" then "inner").
C2_ReentrantLock ==
    \A t \in Threads :
        /\ AtLock(t) /\ count > 0 /\ owner = t => ENABLED LockStep(t)
        /\ AtLock(t) /\ count > 0 /\ owner # t => ~ENABLED LockStep(t)
        /\ At(t, "print", "fmt") /\ Top(t).pieces = <<>> =>
               /\ Len(Sink) >= Len(Top(t).data)
               /\ Suffix(Sink, Len(Top(t).data)) = Top(t).data

\* C2 witness: the outer print has finished with "outer:inner" in the sink
\* while another thread is kept waiting for the lock.
C2_Witness ==
    \E t \in Threads : \E u \in Others(t) :
        /\ At(t, "print", "fmt")
        /\ Top(t).pieces = <<>>
        /\ ~Top(t).flag
        /\ Top(t).data = FmtText(FmtOuter)
        /\ Sink = <<"o", "u", "t", "e", "r", ":", "i", "n", "n", "e", "r">>
        /\ AtLock(u)

\* A write or write_all through the handle, called after the shutdown hook
\* returned, that has written and is about to return.
WriteReturns(t) ==
    /\ ~Idle(t)
    /\ Top(t).op \in {"write", "write_all"}
    /\ Top(t).pc = "unlock"
    /\ Top(t).after

\* C4 as stated: once cleanup() has run, a later write is in the raw stream
\* when the call returns, and nothing is left in the buffer.
C4_Original ==
    \A t \in Threads : WriteReturns(t) => lw.buf = <<>> /\ rawOut = log

\* C4 amended: once cleanup() has run and has replaced the line writer (it
\* found stdout initialized and got the lock), a later write is in the raw
\* stream when the call returns, and nothing is left in the buffer, newline
\* or not.
C4_AfterSwap ==
    \A t \in Threads :
        WriteReturns(t) /\ cleanupState = "swapped" => lw.buf = <<>> /\ rawOut = log

\* C4 witness: after the swap a write of "a" (no newline, shorter than the
\* old capacity) is about to return with the "a" in the raw stream.
C4_Witness ==
    \E t \in Threads :
        /\ WriteReturns(t)
        /\ cleanupState = "swapped"
        /\ Top(t).data = <<"a">>
        /\ rawOut # <<>>
        /\ rawOut[Len(rawOut)] = "a"

\* C5: cleanup() never waits for the lock: its try_lock step can always be
\* taken, and when another thread holds the lock that step returns from
\* cleanup() leaving the line writer, the raw stream and the lock as they were.
C5_CleanupNeverBlocks ==
    /\ [](\A t \in Threads : At(t, "cleanup", "try_lock") => ENABLED cleanup(t))
    /\ [][\A t \in Threads :
            At(t, "cleanup", "try_lock") /\ count > 0 /\ owner # t /\ stk'[t] # stk[t]
            => /\ stk'[t] = <<>>
               /\ lw' = lw
               /\ rawOut' = rawOut
               /\ owner' = owner
               /\ count' = count
               /\ cleanupState' = "skipped"]_vars

\* C5 witness: cleanup() has returned without the lock, which another thread
\* holds through a leaked guard (no guard variable left, no call running).
C5_Witness ==
    \E u \in Threads :
        /\ cleanupState = "skipped"
        /\ count > 0
        /\ owner = u
        /\ guards[u] = 0
        /\ Idle(u)
        /\ \A t \in Threads : Idle(t)

\* C6: when cleanup() has got the lock and replaced the writer, every byte
\* the handle accepted before is in the raw stream, in order, and the line
\* writer is empty with capacity zero; the capacity stays zero from then on.
C6_CleanupFlushes ==
    /\ \A t \in Threads :
           At(t, "cleanup", "drop") => /\ lw = LineWriter_with_capacity(0)
                                       /\ rawOut = log
    /\ cleanupState = "swapped" => lw.cap = 0

\* C6 witness: two writes of "a" were buffered (no flush call fits in the
\* same run) and cleanup() has put them in the raw stream.
C6_Witness ==
    \E t \in Threads :
        /\ At(t, "cleanup", "drop")
        /\ log = <<"a", "a">>
        /\ rawOut = <<"a", "a">>

\* C7: for each stream the initializer runs at most once, the cell is
\* complete exactly when it has run, every handle returned is the one stored
\* instance, and a complete cell stays complete with the same instance.
C7_InitializedOnce ==
    /\ [](\A k \in Kinds :
            /\ created[k] <= 1
            /\ once[k] = "complete" <=> created[k] = 1
            /\ once[k] = "complete" <=> instance[k] # 0
            /\ \A t \in Threads : handle[t][k] # 0 => handle[t][k] = instance[k])
    /\ [][\A k \in Kinds :
            once[k] = "complete" => once'[k] = "complete" /\ instance'[k] = instance[k]]_vars

\* C7 witness: two threads both passed the fast path of the same accessor
\* before the cell was complete; one ran the initializer and returned, the
\* other is at call_once and will be given the same instance.
C7_Witness ==
    \E k \in Kinds : \E t \in Threads : \E u \in Others(t) :
        /\ handle[t][k] = 1
        /\ instance[k] = 1
        /\ At(u, k, "call_once")

\* C8: a thread inside borrow_mut() on the line writer holds the stdout
\* lock, and every step that changes the line writer, the raw stream or the
\* borrow is a step of the thread that holds the lock.
C8_BufferUnderLock ==
    /\ [](borrow # 0 => count > 0 /\ owner = borrow)
    /\ [][lw' # lw \/ rawOut' # rawOut \/ borrow' # borrow
            => count > 0 /\ owner \in Threads /\ stk'[owner] # stk[owner]]_vars

\* C8 witness: a thread is inside a line writer call under a lock it took
\* twice (a reentrant acquisition).
C8_Witness == borrow # 0 /\ owner = borrow /\ count >= 2

\* C8 witness, second case: cleanup() (try_lock) has replaced the writer.
C8_WitnessTryLock == \E t \in Threads : At(t, "cleanup", "drop") /\ owner = t

(***************************************************************************)
(* SpecRaw: the raw adapters StdinRaw, StdoutRaw, StderrRaw.  Each method  *)
(* passes the result of the platform call (sys::stdio) through             *)
(* handle_ebadf.  A result is Ok(val) or Err(err); Ok(()) is written       *)
(* Ok(0).                                                                  *)
(***************************************************************************)
Ok(v) == [ok |-> TRUE, val |-> v, err |-> "none"]
Err(e) == [ok |-> FALSE, val |-> 0, err |-> e]

\* Calls on the raw adapters in one run.
MaxRawCalls == 2

\* Error codes the platform call may fail with.
Errnos == {"EBADF", "EIO"}

\* Buffers of a raw call, as chunks (one chunk unless the call is vectored).
RawBufs == { <<>>, << <<"x">> >>, << <<"x", "y">> >>, << <<"x">>, <<"y", "z">> >> }

RECURSIVE Concat(_)
Concat(bufs) == IF bufs = <<>> THEN <<>> ELSE Head(bufs) \o Concat(Tail(bufs))

RECURSIVE SumLen(_)
\* bufs.iter().map(|b| b.len()).sum()
SumLen(bufs) == IF bufs = <<>> THEN 0 ELSE Len(Head(bufs)) + SumLen(Tail(bufs))

ReadOps == {"read", "read_vectored", "read_to_end", "read_to_string"}
WriteOps == {"write", "write_vectored", "flush", "write_all", "write_all_vectored", "write_fmt"}
CountOps == {"write", "write_vectored"}
VectoredOps == {"read_vectored", "write_vectored", "write_all_vectored"}

\* stdio::is_ebadf: the error is the platform's "bad file descriptor".
is_ebadf(e) == e = "EBADF"

\* Mutation of handle_ebadf: every error becomes the default.
handle_ebadf_AnyError(r, default) == IF ~r.ok THEN Ok(default) ELSE r

\* fn handle_ebadf<T>(r: io::Result<T>, default: T) -> io::Result<T>
handle_ebadf(r, default) == IF ~r.ok /\ is_ebadf(r.err) THEN Ok(default) ELSE r

\* A read that returns the platform result as it is.
StdinRaw_read_to_end_Unhandled(r) == r

\* impl Read for StdinRaw
StdinRaw_read(r) == handle_ebadf(r, 0)
StdinRaw_read_vectored(r) == handle_ebadf(r, 0)
StdinRaw_read_to_end(r) == handle_ebadf(r, 0)
StdinRaw_read_to_string(r) == handle_ebadf(r, 0)

\* A write whose default is that of a read.
StderrRaw_write_Zero(r, buf) == handle_ebadf(r, 0)

\* A vectored write that counts only its first chunk.
StdoutRaw_write_vectored_First(r, bufs) == handle_ebadf(r, IF bufs = <<>> THEN 0 ELSE Len(Head(bufs)))
\* A flush that returns the platform result as it is.
StdoutRaw_flush_Unhandled(r) == r
\* impl Write for StdoutRaw
StdoutRaw_write(r, buf) == handle_ebadf(r, Len(buf))
StdoutRaw_write_vectored(r, bufs) == LET total == SumLen(bufs) IN handle_ebadf(r, total)
StdoutRaw_flush(r) == handle_ebadf(r, 0)
StdoutRaw_write_all(r) == handle_ebadf(r, 0)
StdoutRaw_write_all_vectored(r) == handle_ebadf(r, 0)
StdoutRaw_write_fmt(r) == handle_ebadf(r, 0)

\* impl Write for StderrRaw
StderrRaw_write(r, buf) == handle_ebadf(r, Len(buf))
StderrRaw_write_vectored(r, bufs) == LET total == SumLen(bufs) IN handle_ebadf(r, total)
StderrRaw_flush(r) == handle_ebadf(r, 0)
StderrRaw_write_all(r) == handle_ebadf(r, 0)
StderrRaw_write_all_vectored(r) == handle_ebadf(r, 0)
StderrRaw_write_fmt(r) == handle_ebadf(r, 0)

\* What the adapter of stream k returns from method op given the platform
\* result r.
RawResult(k, op, bufs, r) ==
    CASE k = "stdin" /\ op = "read" -> StdinRaw_read(r)
      [] k = "stdin" /\ op = "read_vectored" -> StdinRaw_read_vectored(r)
      [] k = "stdin" /\ op = "read_to_end" -> StdinRaw_read_to_end(r)
      [] k = "stdin" /\ op = "read_to_string" -> StdinRaw_read_to_string(r)
      [] k = "stdout" /\ op = "write" -> StdoutRaw_write(r, Concat(bufs))
      [] k = "stdout" /\ op = "write_vectored" -> StdoutRaw_write_vectored(r, bufs)
      [] k = "stdout" /\ op = "flush" -> StdoutRaw_flush(r)
      [] k = "stdout" /\ op = "write_all" -> StdoutRaw_write_all(r)
      [] k = "stdout" /\ op = "write_all_vectored" -> StdoutRaw_write_all_vectored(r)
      [] k = "stdout" /\ op = "write_fmt" -> StdoutRaw_write_fmt(r)
      [] k = "stderr" /\ op = "write" -> StderrRaw_write(r, Concat(bufs))
      [] k = "stderr" /\ op = "write_vectored" -> StderrRaw_write_vectored(r, bufs)
      [] k = "stderr" /\ op = "flush" -> StderrRaw_flush(r)
      [] k = "stderr" /\ op = "write_all" -> StderrRaw_write_all(r)
      [] k = "stderr" /\ op = "write_all_vectored" -> StderrRaw_write_all_vectored(r)
      [] k = "stderr" /\ op = "write_fmt" -> StderrRaw_write_fmt(r)

\* The platform call: it fails with an error code and moves no byte, or it
\* succeeds.  A write or read moves n bytes and reports n; write_all and its
\* kin move every byte and report (); flush moves none.
SysResults(op, bufs) ==
    { Err(e) : e \in Errnos } \cup
    IF op \in CountOps \cup ReadOps THEN { Ok(n) : n \in 0..SumLen(bufs) }
    ELSE { Ok(0) }

SysMoved(op, bufs, r) ==
    IF ~r.ok \/ op = "flush" THEN <<>>
    ELSE IF op \in CountOps \cup ReadOps THEN Take(Concat(bufs), r.val)
    ELSE Concat(bufs)

RawArgs(op) ==
    IF op = "flush" THEN { <<>> }
    ELSE IF op \in VectoredOps THEN RawBufs
    ELSE { b \in RawBufs : Len(b) = 1 }

\* One call of method op on the raw adapter of stream k.  For a read, bufs
\* stands for the input the descriptor has for it.
RawCall(k, op, bufs, r) ==
    /\ rawCall.n < MaxRawCalls
    /\ op \in (IF k = "stdin" THEN ReadOps ELSE WriteOps)
    /\ bufs \in RawArgs(op)
    /\ r \in SysResults(op, bufs)
    /\ rawCall' = [n |-> rawCall.n + 1, stream |-> k, op |-> op, bufs |-> bufs, sys |-> r, fdBefore |-> rawFd, inBefore |-> rawIn]
    /\ rawRet' = RawResult(k, op, bufs, r)
    /\ IF k = "stdin"
       THEN rawIn' = rawIn \o SysMoved(op, bufs, r) /\ UNCHANGED rawFd
       ELSE rawFd' = [rawFd EXCEPT ![k] = @ \o SysMoved(op, bufs, r)] /\ UNCHANGED rawIn
    /\ UNCHANGED <<onceVars, stdoutVars, captureVars, stdinVars, extVars>>

\* No call made yet.
NoCall == [n |-> 0, stream |-> "none", op |-> "none", bufs |-> <<>>, sys |-> Ok(0), fdBefore |-> <<>>, inBefore |-> <<>>]

InitRaw ==
    /\ InitOnce
    /\ InitStdout
    /\ InitCapture
    /\ InitStdin
    /\ InitExt
    /\ rawFd = [k \in {"stdout", "stderr"} |-> <<>>]
    /\ rawIn = <<>>
    /\ rawCall = NoCall
    /\ rawRet = Ok(0)

NextRaw == \E k \in Kinds : \E op \in ReadOps \cup WriteOps : \E bufs \in RawBufs : \E r \in SysResults(op, bufs) : RawCall(k, op, bufs, r)

SpecRaw == InitRaw /\ [][NextRaw]_vars

LastCall == rawCall
BadDescriptor == LastCall.n > 0 /\ ~LastCall.sys.ok /\ LastCall.sys.err = "EBADF"

\* C9: a read, read_vectored, read_to_end or read_to_string on StdinRaw
\* whose platform call fails with the bad-descriptor error returns Ok(0).
C9_ReadBadDescriptor ==
    BadDescriptor /\ LastCall.stream = "stdin" /\ LastCall.op \in ReadOps
        => rawRet = Ok(0)

\* C9 witness: a read_to_end on stdin hit the bad descriptor and returned Ok(0).
C9_Witness ==
    /\ BadDescriptor
    /\ LastCall.stream = "stdin"
    /\ LastCall.op = "read_to_end"
    /\ rawRet = Ok(0)

\* C10: a write of a buffer of length N on StdoutRaw or StderrRaw whose
\* platform call fails with the bad-descriptor error returns Ok(N), and no
\* byte reaches either descriptor or the reader.
C10_WriteBadDescriptor ==
    BadDescriptor /\ LastCall.stream \in {"stdout", "stderr"} /\ LastCall.op = "write"
        => /\ rawRet = Ok(Len(Concat(LastCall.bufs)))
           /\ rawFd = LastCall.fdBefore
           /\ rawIn = LastCall.inBefore

\* C10 witness: a write of two bytes on stderr hit the bad descriptor and
\* returned Ok(2).
C10_Witness ==
    /\ BadDescriptor
    /\ LastCall.stream = "stderr"
    /\ LastCall.op = "write"
    /\ Len(Concat(LastCall.bufs)) = 2
    /\ rawRet = Ok(2)

(***************************************************************************)
(* SpecCapture: the thread-local output capture (OUTPUT_CAPTURE,           *)
(* set_output_capture, print_to).  The global handles are the subject of   *)
(* Spec; here gOut[k] only records which bytes a print call sent to the    *)
(* global handle k.  A formatting argument whose Display implementation    *)
(* prints (Arg) renders no text of its own, so the text of a call is the   *)
(* concatenation of its literal pieces.                                    *)
(***************************************************************************)
\* The variables SpecCapture leaves alone.
nonCaptureVars == <<onceVars, owner, count, lw, borrow, rawOut, guards, log, cleanupState, rawVars, stdinVars, extVars>>

FmtHello == << Lit(<<"h", "e", "l", "l", "o">>) >>
CaptureFormats == {FmtHello, FmtOuter}
RECURSIVE OwnText(_)
OwnText(f) == IF f = <<>> THEN <<>> ELSE (IF Head(f).nested THEN <<>> ELSE Head(f).lit) \o OwnText(Tail(f))
Panicked == -1
\* Operations of the threads in a run of SpecCapture.
MaxCaptureOps == 4
BeginCapture(t) == Idle(t) /\ ops < MaxCaptureOps /\ ops' = ops + 1
\* Errors a write to a global handle may return (the raw adapters swallow
\* the bad-descriptor error).
GlobalErrors == Errnos \ {"EBADF"}
NoPanic == <<>>

\* The activation of print_to(args, global_s, label).  expect, toSink,
\* toGlobal, consulted and err are history: the slot when the call was
\* made, the bytes the call itself wrote to a sink and to a global handle,
\* whether it looked at the slot, the error its global write returned, and
\* whether its write into the sink returned an error.
PrintFrame(t, global_s, label, f) ==
    [op |-> "print_to", pc |-> "entry", global_s |-> global_s, label |-> label,
     data |-> OwnText(f), pieces |-> f,
     expect |-> IF tlsAlive[t] THEN slot[t] ELSE 0, sink |-> 0, toSink |-> <<>>, toGlobal |-> <<>>,
     consulted |-> FALSE, err |-> "none", sinkErr |-> FALSE]

SetTop(t, f) == stk' = [stk EXCEPT ![t][Len(stk[t])] = f]

\* Mutation of set_output_capture: the new sink is returned, not the old.
set_output_capture_ReturnsNew(t, sink) ==
    /\ BeginCapture(t)
    /\ tlsAlive[t]
    /\ captureUsed' = TRUE
    /\ slot' = [slot EXCEPT ![t] = sink]
    /\ lastRet' = [lastRet EXCEPT ![t] = sink]
    /\ lastArg' = [lastArg EXCEPT ![t] = sink]
    /\ UNCHANGED <<stk, tlsAlive, sinkBuf, sinkOwner, sinkPoison, gOut, printed, panicMsg>>
    /\ UNCHANGED nonCaptureVars

\* Mutation of set_output_capture: the slot is replaced without storing the
\* capture-used flag.
set_output_capture_NoFlag(t, sink) ==
    /\ BeginCapture(t)
    /\ tlsAlive[t]
    /\ slot' = [slot EXCEPT ![t] = sink]
    /\ lastRet' = [lastRet EXCEPT ![t] = slot[t]]
    /\ lastArg' = [lastArg EXCEPT ![t] = sink]
    /\ UNCHANGED <<captureUsed, stk, tlsAlive, sinkBuf, sinkOwner, sinkPoison, gOut, printed, panicMsg>>
    /\ UNCHANGED nonCaptureVars

set_output_capture(t, sink) ==
    /\ BeginCapture(t)
    /\ IF sink = 0 /\ ~captureUsed
       THEN /\ lastRet' = [lastRet EXCEPT ![t] = 0]
            /\ UNCHANGED <<captureUsed, slot>>
       ELSE /\ captureUsed' = TRUE
            /\ IF tlsAlive[t]
               THEN /\ slot' = [slot EXCEPT ![t] = sink]
                    /\ lastRet' = [lastRet EXCEPT ![t] = slot[t]]
               ELSE /\ lastRet' = [lastRet EXCEPT ![t] = Panicked]
                    /\ UNCHANGED slot
    /\ lastArg' = [lastArg EXCEPT ![t] = sink]
    /\ UNCHANGED <<stk, tlsAlive, sinkBuf, sinkOwner, sinkPoison, gOut, printed, panicMsg>>
    /\ UNCHANGED nonCaptureVars

\* print_to called with the handle global_s and the label naming it.
CallPrintTo(t, global_s, label, f) ==
    /\ BeginCapture(t)
    /\ Push(t, PrintFrame(t, global_s, label, f))
    /\ UNCHANGED captureVars
    /\ UNCHANGED nonCaptureVars

\* Mutation of _eprint: the label of the other stream.
_eprint_WrongLabel(t, f) == CallPrintTo(t, "stderr", "stdout", f)

\* print_to(args, stdout, "stdout")
_print(t, f) == CallPrintTo(t, "stdout", "stdout", f)

\* print_to(args, stderr, "stderr")
_eprint(t, f) == CallPrintTo(t, "stderr", "stderr", f)

\* Mutation of print_to_take: the capture slot is never consulted.
print_to_take_NoCapture(t) ==
    /\ At(t, "print_to", "entry")
    /\ Goto(t, "global")
    /\ UNCHANGED <<ops, captureVars>>
    /\ UNCHANGED nonCaptureVars

\* Mutation of print_to_take: the sink is used but left in the slot.
print_to_take_NoTake(t) ==
    /\ At(t, "print_to", "entry")
    /\ IF captureUsed /\ tlsAlive[t] /\ slot[t] # 0
       THEN SetTop(t, [Top(t) EXCEPT !.pc = "sink_lock", !.sink = slot[t], !.consulted = TRUE])
       ELSE SetTop(t, [Top(t) EXCEPT !.pc = "global", !.consulted = captureUsed])
    /\ UNCHANGED <<ops, captureVars>>
    /\ UNCHANGED nonCaptureVars

\* Mutation of print_to_take: a thread without a sink uses the sink that
\* another thread installed.
print_to_take_AnyThread(t) ==
    /\ At(t, "print_to", "entry")
    /\ LET mine == IF captureUsed /\ tlsAlive[t] THEN slot[t] ELSE 0
           theirs == { slot[u] : u \in Others(t) } \ {0}
           w == IF mine # 0 \/ theirs = {} THEN mine ELSE CHOOSE s \in theirs : TRUE
       IN IF w # 0
          THEN /\ SetTop(t, [Top(t) EXCEPT !.pc = "sink_lock", !.sink = w, !.consulted = TRUE])
               /\ slot' = [slot EXCEPT ![t] = 0]
          ELSE /\ SetTop(t, [Top(t) EXCEPT !.pc = "global", !.consulted = captureUsed])
               /\ UNCHANGED slot
    /\ UNCHANGED <<ops, captureUsed, tlsAlive, sinkBuf, sinkOwner, sinkPoison, gOut, lastRet, lastArg, printed, panicMsg>>
    /\ UNCHANGED nonCaptureVars

\* Mutation of print_to_take: the slot is looked up whatever the flag says.
print_to_take_FlagIgnored(t) ==
    /\ At(t, "print_to", "entry")
    /\ IF tlsAlive[t] /\ slot[t] # 0
       THEN /\ SetTop(t, [Top(t) EXCEPT !.pc = "sink_lock", !.sink = slot[t], !.consulted = TRUE])
            /\ slot' = [slot EXCEPT ![t] = 0]
       ELSE /\ SetTop(t, [Top(t) EXCEPT !.pc = "global", !.consulted = TRUE])
            /\ UNCHANGED slot
    /\ UNCHANGED <<ops, captureUsed, tlsAlive, sinkBuf, sinkOwner, sinkPoison, gOut, lastRet, lastArg, printed, panicMsg>>
    /\ UNCHANGED nonCaptureVars

\* The condition of print_to: the flag, then (only if it is set) try_with
\* and s.take().
print_to_take(t) ==
    /\ At(t, "print_to", "entry")
    /\ IF captureUsed /\ tlsAlive[t] /\ slot[t] # 0
       THEN /\ SetTop(t, [Top(t) EXCEPT !.pc = "sink_lock", !.sink = slot[t], !.consulted = TRUE])
            /\ slot' = [slot EXCEPT ![t] = 0]
       ELSE /\ SetTop(t, [Top(t) EXCEPT !.pc = "global", !.consulted = captureUsed])
            /\ UNCHANGED slot
    /\ UNCHANGED <<ops, captureUsed, tlsAlive, sinkBuf, sinkOwner, sinkPoison, gOut, lastRet, lastArg, printed, panicMsg>>
    /\ UNCHANGED nonCaptureVars

\* Mutation of print_to_sink_lock: lock().unwrap(), which panics on a
\* poisoned mutex.
print_to_sink_lock_Unwrap(t) ==
    /\ At(t, "print_to", "sink_lock")
    /\ sinkOwner[Top(t).sink] = 0
    /\ IF sinkPoison[Top(t).sink]
       THEN /\ Goto(t, "panic")
            /\ panicMsg' = [panicMsg EXCEPT ![t] = <<"PoisonError", "none">>]
            /\ UNCHANGED <<sinkOwner, printed>>
       ELSE /\ sinkOwner' = [sinkOwner EXCEPT ![Top(t).sink] = t]
            /\ printed' = [printed EXCEPT ![Top(t).sink] = @ \o Top(t).data]
            /\ Goto(t, "sink_fmt")
            /\ UNCHANGED panicMsg
    /\ UNCHANGED <<ops, captureUsed, slot, tlsAlive, sinkBuf, sinkPoison, gOut, lastRet, lastArg>>
    /\ UNCHANGED nonCaptureVars

\* w.lock().unwrap_or_else(|e| e.into_inner()): blocks until the sink's
\* mutex is free; a poisoned mutex is taken like any other.
print_to_sink_lock(t) ==
    /\ At(t, "print_to", "sink_lock")
    /\ sinkOwner[Top(t).sink] = 0
    /\ sinkOwner' = [sinkOwner EXCEPT ![Top(t).sink] = t]
    /\ printed' = [printed EXCEPT ![Top(t).sink] = @ \o Top(t).data]
    /\ Goto(t, "sink_fmt")
    /\ UNCHANGED <<ops, captureUsed, slot, tlsAlive, sinkBuf, sinkPoison, gOut, lastRet, lastArg, panicMsg>>
    /\ UNCHANGED nonCaptureVars

\* write_fmt(args) on the locked sink, one piece at a time.
print_to_sink_write(t) ==
    /\ At(t, "print_to", "sink_fmt")
    /\ Top(t).pieces # <<>>
    /\ LET p == Head(Top(t).pieces)
           rest == [Top(t) EXCEPT !.pieces = Tail(@)]
       IN IF p.nested
          THEN /\ stk' = [stk EXCEPT ![t] = Append([@ EXCEPT ![Len(@)] = rest], PrintFrame(t, "stdout", "stdout", <<Lit(p.lit)>>))]
               /\ UNCHANGED sinkBuf
          ELSE /\ SetTop(t, [rest EXCEPT !.toSink = @ \o p.lit])
               /\ sinkBuf' = [sinkBuf EXCEPT ![Top(t).sink] = @ \o p.lit]
    /\ UNCHANGED <<ops, captureUsed, slot, tlsAlive, sinkOwner, sinkPoison, gOut, lastRet, lastArg, printed, panicMsg>>
    /\ UNCHANGED nonCaptureVars

\* Mutation of print_to_sink_set: the sink is put back only into a slot
\* that is still empty.
print_to_sink_set_KeepInstalled(t) ==
    /\ At(t, "print_to", "sink_fmt")
    /\ Top(t).pieces = <<>>
    /\ sinkOwner' = [sinkOwner EXCEPT ![Top(t).sink] = 0]
    /\ slot' = [slot EXCEPT ![t] = IF @ = 0 THEN Top(t).sink ELSE @]
    /\ Goto(t, "ret")
    /\ UNCHANGED <<ops, captureUsed, tlsAlive, sinkBuf, sinkPoison, gOut, lastRet, lastArg, printed, panicMsg>>
    /\ UNCHANGED nonCaptureVars

\* Mutation of print_to_sink_set: an error of the write into the sink is
\* not discarded, the call goes on to the global handle.
print_to_sink_set_ErrorFallsBack(t) ==
    /\ At(t, "print_to", "sink_fmt")
    /\ Top(t).pieces = <<>>
    /\ sinkOwner' = [sinkOwner EXCEPT ![Top(t).sink] = 0]
    /\ slot' = [slot EXCEPT ![t] = Top(t).sink]
    /\ Goto(t, IF Top(t).sinkErr THEN "global" ELSE "ret")
    /\ UNCHANGED <<ops, captureUsed, tlsAlive, sinkBuf, sinkPoison, gOut, lastRet, lastArg, printed, panicMsg>>
    /\ UNCHANGED nonCaptureVars

\* The result of write_fmt is discarded (let _ =), the guard is dropped and
\* s.set(Some(w)) puts the sink back.
print_to_sink_set(t) ==
    /\ At(t, "print_to", "sink_fmt")
    /\ Top(t).pieces = <<>>
    /\ sinkOwner' = [sinkOwner EXCEPT ![Top(t).sink] = 0]
    /\ slot' = [slot EXCEPT ![t] = Top(t).sink]
    /\ Goto(t, "ret")
    /\ UNCHANGED <<ops, captureUsed, tlsAlive, sinkBuf, sinkPoison, gOut, lastRet, lastArg, printed, panicMsg>>
    /\ UNCHANGED nonCaptureVars

\* Mutation of print_to_global: the error of the global write is dropped.
print_to_global_ErrorIgnored(t, e) ==
    /\ At(t, "print_to", "global")
    /\ IF Top(t).pieces = <<>>
       THEN e = "none" /\ Goto(t, "ret") /\ UNCHANGED gOut
       ELSE LET p == Head(Top(t).pieces)
                rest == [Top(t) EXCEPT !.pieces = Tail(@)]
            IN IF p.nested
               THEN /\ e = "none"
                    /\ stk' = [stk EXCEPT ![t] = Append([@ EXCEPT ![Len(@)] = rest], PrintFrame(t, "stdout", "stdout", <<Lit(p.lit)>>))]
                    /\ UNCHANGED gOut
               ELSE IF e # "none"
                    THEN /\ SetTop(t, [Top(t) EXCEPT !.pc = "ret", !.err = e])
                         /\ UNCHANGED gOut
                    ELSE /\ SetTop(t, [rest EXCEPT !.toGlobal = @ \o p.lit])
                         /\ gOut' = [gOut EXCEPT ![Top(t).global_s] = @ \o p.lit]
    /\ UNCHANGED panicMsg
    /\ UNCHANGED <<ops, captureUsed, slot, tlsAlive, sinkBuf, sinkOwner, sinkPoison, lastRet, lastArg, printed>>
    /\ UNCHANGED nonCaptureVars

\* global_s().write_fmt(args), one piece at a time; e is the error the
\* handle returns for the piece ("none": the piece is written).  On an error
\* print_to panics with "failed printing to {label}: {e}".
print_to_global(t, e) ==
    /\ At(t, "print_to", "global")
    /\ IF Top(t).pieces = <<>>
       THEN e = "none" /\ Goto(t, "ret") /\ UNCHANGED <<gOut, panicMsg>>
       ELSE LET p == Head(Top(t).pieces)
                rest == [Top(t) EXCEPT !.pieces = Tail(@)]
            IN IF p.nested
               THEN /\ e = "none"
                    /\ stk' = [stk EXCEPT ![t] = Append([@ EXCEPT ![Len(@)] = rest], PrintFrame(t, "stdout", "stdout", <<Lit(p.lit)>>))]
                    /\ UNCHANGED <<gOut, panicMsg>>
               ELSE IF e # "none"
                    THEN /\ SetTop(t, [Top(t) EXCEPT !.pc = "panic", !.err = e])
                         /\ panicMsg' = [panicMsg EXCEPT ![t] = <<Top(t).label, e>>]
                         /\ UNCHANGED gOut
                    ELSE /\ SetTop(t, [rest EXCEPT !.toGlobal = @ \o p.lit])
                         /\ gOut' = [gOut EXCEPT ![Top(t).global_s] = @ \o p.lit]
                         /\ UNCHANGED panicMsg
    /\ UNCHANGED <<ops, captureUsed, slot, tlsAlive, sinkBuf, sinkOwner, sinkPoison, lastRet, lastArg, printed>>
    /\ UNCHANGED nonCaptureVars

print_to_return(t) ==
    /\ At(t, "print_to", "ret")
    /\ Pop(t)
    /\ UNCHANGED <<ops, captureVars>>
    /\ UNCHANGED nonCaptureVars

\* The panic unwinds one activation.  The caller, if any, was inside
\* write_fmt: of a sink, whose guard is dropped by the unwinding, which
\* poisons the mutex and skips s.set(Some(w)); or of a global handle.
print_to_unwind(t) ==
    /\ At(t, "print_to", "panic")
    /\ IF Len(stk[t]) = 1
       THEN Pop(t) /\ UNCHANGED <<sinkOwner, sinkPoison>>
       ELSE LET caller == stk[t][Len(stk[t]) - 1]
            IN /\ stk' = [stk EXCEPT ![t] = Append(SubSeq(@, 1, Len(@) - 2), [caller EXCEPT !.pc = "panic"])]
               /\ IF caller.pc = "sink_fmt"
                  THEN /\ sinkOwner' = [sinkOwner EXCEPT ![caller.sink] = 0]
                       /\ sinkPoison' = [sinkPoison EXCEPT ![caller.sink] = TRUE]
                  ELSE UNCHANGED <<sinkOwner, sinkPoison>>
    /\ UNCHANGED <<ops, captureUsed, slot, tlsAlive, sinkBuf, gOut, lastRet, lastArg, printed, panicMsg>>
    /\ UNCHANGED nonCaptureVars

\* The thread-local key of a finished thread is destroyed.
TlsDestroy(t) ==
    /\ BeginCapture(t)
    /\ tlsAlive[t]
    /\ tlsAlive' = [tlsAlive EXCEPT ![t] = FALSE]
    /\ slot' = [slot EXCEPT ![t] = 0]
    /\ UNCHANGED <<stk, captureUsed, sinkBuf, sinkOwner, sinkPoison, gOut, lastRet, lastArg, printed, panicMsg>>
    /\ UNCHANGED nonCaptureVars

NextCapture ==
    \E t \in Threads :
        \/ \E s \in Sinks \cup {0} : set_output_capture(t, s)
        \/ \E f \in CaptureFormats : _print(t, f)
        \/ _eprint(t, FmtHello)
        \/ print_to_take(t)
        \/ print_to_sink_lock(t)
        \/ print_to_sink_write(t)
        \/ print_to_sink_set(t)
        \/ \E e \in GlobalErrors \cup {"none"} : print_to_global(t, e)
        \/ print_to_return(t)
        \/ print_to_unwind(t)
        \/ TlsDestroy(t)

SpecCapture == Init /\ [][NextCapture]_vars

\* The print_to frames of all threads.
PrintFrames == UNION { { stk[t][i] : i \in 1..Len(stk[t]) } : t \in Threads }
Writing(s) == \E f \in PrintFrames : f.sink = s /\ f.pc = "sink_fmt"

\* C3: a print call made on a thread where a sink is installed writes its
\* whole text T to that sink and no byte to the global handle, and puts the
\* sink back; a sink no call is writing to holds exactly the texts of the
\* calls that locked it, in that order.
C3_CaptureRouting ==
    /\ \A t \in Threads :
          (At(t, "print_to", "ret") /\ Top(t).expect # 0) =>
              /\ Top(t).sink = Top(t).expect
              /\ Top(t).toSink = Top(t).data
              /\ Top(t).toGlobal = <<>>
              /\ slot[t] = Top(t).expect
    /\ \A s \in Sinks :
          /\ IsPrefix(sinkBuf[s], printed[s])
          /\ ~Writing(s) => sinkBuf[s] = printed[s]

\* C3 witness: a thread installed sink 1, printed "hello", removed the sink
\* again; the sink holds "hello" and the global handles received nothing.
C3_Witness ==
    \E t \in Threads :
        /\ Idle(t)
        /\ slot[t] = 0
        /\ lastRet[t] = 1
        /\ sinkBuf[1] = OwnText(FmtHello)
        /\ printed[1] = OwnText(FmtHello)
        /\ \A k \in Streams : gOut[k] = <<>>

(***************************************************************************)
(* SpecRaw, continued.                                                     *)
(***************************************************************************)
OutStreams == {"stdout", "stderr"}
EBADF == Err("EBADF")

\* C11: a write_vectored on StdoutRaw or StderrRaw whose platform call fails
\* with the bad-descriptor error returns Ok(S), S the sum of the lengths of
\* the chunks, which is what write reports for the concatenated chunks under
\* the same failure; no byte reaches a descriptor.
C11_VectoredBadDescriptor ==
    BadDescriptor /\ LastCall.stream \in OutStreams /\ LastCall.op = "write_vectored"
        => /\ rawRet = Ok(Len(Concat(LastCall.bufs)))
           /\ rawRet = RawResult(LastCall.stream, "write", << Concat(LastCall.bufs) >>, EBADF)
           /\ rawFd = LastCall.fdBefore

\* C11 witness: a write_vectored of chunks of 1 and 2 bytes on stdout hit
\* the bad descriptor and returned Ok(3).
C11_Witness ==
    /\ BadDescriptor
    /\ LastCall.stream = "stdout"
    /\ LastCall.op = "write_vectored"
    /\ Len(LastCall.bufs) = 2
    /\ rawRet = Ok(3)

\* C12: no method of the raw adapters returns the bad-descriptor error: a
\* platform call failing with it becomes a success, and flush, write_all,
\* write_all_vectored and write_fmt then return Ok(()) (written Ok(0)).
C12_BadDescriptorNeverSurfaces ==
    LastCall.n > 0 =>
        /\ ~(~rawRet.ok /\ is_ebadf(rawRet.err))
        /\ BadDescriptor => rawRet.ok
        /\ BadDescriptor /\ LastCall.op \in WriteOps \ CountOps => rawRet = Ok(0)

\* C12 witness: a flush of stdout hit the bad descriptor and returned Ok(()).
C12_Witness ==
    /\ BadDescriptor
    /\ LastCall.stream = "stdout"
    /\ LastCall.op = "flush"
    /\ rawRet = Ok(0)

(***************************************************************************)
(* SpecCapture, continued.                                                 *)
(***************************************************************************)
FramesOf(t) == { stk[t][i] : i \in 1..Len(stk[t]) }
InSink(f) == f.pc \in {"sink_lock", "sink_fmt"}

C14_GlobalWhenNoSink ==
    /\ \A t \in Threads : \A f \in FramesOf(t) :
          /\ f.expect = 0 => f.sink = 0 /\ f.toSink = <<>>
          /\ f.expect = 0 /\ f.pc = "ret" => f.toGlobal = f.data
          /\ ~captureUsed => ~f.consulted /\ f.sink = 0
    /\ ~captureUsed => \A s \in Sinks : sinkBuf[s] = <<>>

\* C14 witness: the flag is set and another thread has a sink installed,
\* yet a thread whose thread-local storage is gone printed to the global
\* handle.
C14_Witness ==
    \E t \in Threads :
        /\ At(t, "print_to", "ret")
        /\ ~tlsAlive[t]
        /\ captureUsed
        /\ \E u \in Others(t) : slot[u] # 0
        /\ Top(t).consulted
        /\ Top(t).toGlobal = OwnText(FmtHello)

\* C15: a print call whose write to the global handle returned an error
\* does not return: it panics, and the panic message names the handle the
\* call wrote to ("stdout" for _print, "stderr" for _eprint) and the error.
C15_GlobalErrorPanics ==
    \A t \in Threads : \A f \in FramesOf(t) :
        f.err # "none" => f.pc = "panic" /\ panicMsg[t] = <<f.global_s, f.err>>

\* C15 witness: an _eprint whose write failed with EIO is panicking with
\* the message naming stderr and EIO.
C15_Witness ==
    \E t \in Threads :
        /\ At(t, "print_to", "panic")
        /\ Top(t).global_s = "stderr"
        /\ Top(t).err = "EIO"
        /\ panicMsg[t] = <<"stderr", "EIO">>

C17_ThreadLocalCapture ==
    /\ [][\A u \in Threads : slot'[u] # slot[u] => stk'[u] # stk[u] \/ (Idle(u) /\ stk' = stk)]_vars
    /\ [][\A t \in Threads : \A s \in Sinks \cup {0} :
            set_output_capture(t, s) => \A u \in Others(t) : slot'[u] = slot[u]]_vars
    /\ [][\A s \in Sinks : sinkBuf'[s] # sinkBuf[s] =>
            \E t \in Threads : At(t, "print_to", "sink_fmt") /\ Top(t).expect = s /\ stk'[t] # stk[t]]_vars
    /\ [](\A t \in Threads : At(t, "print_to", "ret") /\ Top(t).expect = 0 =>
            Top(t).toGlobal = Top(t).data /\ Top(t).toSink = <<>>)

\* C17 witness: a thread with an empty slot printed "hello" to the global
\* handle while the other thread had sink 1 installed; the sink is empty.
C17_Witness ==
    \E t \in Threads : \E u \in Others(t) :
        /\ slot[u] = 1
        /\ tlsAlive[t]
        /\ At(t, "print_to", "ret")
        /\ Top(t).expect = 0
        /\ Top(t).toGlobal = OwnText(FmtHello)
        /\ sinkBuf[1] = <<>>

\* C18: a print call whose sink's mutex is locked by another thread does
\* not wait for it (it would fall back to the global handle): no call is
\* ever stopped at the lock of a sink that another thread holds.
C18_NoWaitForLockedSink ==
    \A t \in Threads :
        ~(At(t, "print_to", "sink_lock") /\ sinkOwner[Top(t).sink] \notin {0, t})

\* C28: while OUTPUT_CAPTURE_USED is false the override slot of every thread
\* is empty, so a print that skips the thread-local lookup misses no sink.
C28_FlagCoversSlots ==
    ~captureUsed => \A t \in Threads : slot[t] = 0

\* C28 witness: with the flag still false after a set_output_capture(None),
\* a print skipped the lookup and wrote its whole text to the global handle.
C28_Witness ==
    /\ ~captureUsed
    /\ \E t \in Threads :
          /\ At(t, "print_to", "ret")
          /\ ~Top(t).consulted
          /\ Top(t).toGlobal = OwnText(FmtHello)
    /\ \E u \in Threads : lastArg[u] = 0 /\ lastRet[u] = 0 /\ ops >= 2

(***************************************************************************)
(* SpecStdin: the stdin handle, a Mutex<BufReader<StdinRaw>> behind a       *)
(* once-initialized static.  The Mutex is not reentrant.  The bytes read   *)
(* are not part of this specification: a read is the time a thread spends  *)
(* inside the BufReader.                                                   *)
(***************************************************************************)
\* Operations of the threads in a run of SpecStdin.
MaxStdinOps == 3
StdinMethods == {"read", "read_line"}
BeginStdin(t) == Idle(t) /\ ops < MaxStdinOps /\ ops' = ops + 1
\* The variables the stdin operations leave alone.
nonStdinVars == <<owner, count, lw, borrow, rawOut, guards, log, cleanupState, rawVars,
                  captureUsed, slot, tlsAlive, sinkBuf, sinkOwner, gOut, lastRet, printed, sinkPoison, lastArg, extVars>>
AtStdinLock(t) == ~Idle(t) /\ Top(t).op \in StdinMethods \cup {"Stdin_lock"} /\ Top(t).pc = "lock"

\* stdin().lock()
CallStdinLock(t) ==
    /\ BeginStdin(t)
    /\ Push(t, Frame("Stdin_lock", "stdin", <<>>, <<>>, FALSE))
    /\ UNCHANGED <<onceVars, stdinVars, panicMsg, nonStdinVars>>

\* stdin().m(buf): impl Read for Stdin, Stdin::read_line
CallStdinHandle(t, m) ==
    /\ BeginStdin(t)
    /\ Push(t, Frame(m, "stdin", <<>>, <<>>, TRUE))
    /\ UNCHANGED <<onceVars, stdinVars, panicMsg, nonStdinVars>>

\* guard.m(buf) on a StdinLock the thread holds.
CallStdinGuard(t, m) ==
    /\ BeginStdin(t)
    /\ stdinGuards[t] > 0
    /\ Push(t, Frame(m, "read", <<>>, <<>>, FALSE))
    /\ UNCHANGED <<onceVars, stdinVars, panicMsg, nonStdinVars>>

\* The handle is obtained from stdin().
StdinAccessor(t) ==
    /\ ~Idle(t)
    /\ Top(t).op \in StdinMethods \cup {"Stdin_lock"}
    /\ Top(t).pc = "stdin"
    /\ Call(t, "lock", Frame("stdin", "get", <<>>, <<>>, FALSE))
    /\ UNCHANGED <<onceVars, ops, stdinVars, panicMsg, nonStdinVars>>

\* Mutation of Stdin_lock: the guard is handed out although another exists.
Stdin_lock_NoExclusion(t) ==
    /\ AtStdinLock(t)
    /\ stdinLocked' = TRUE
    /\ stdinGuards' = [stdinGuards EXCEPT ![t] = @ + 1]
    /\ IF Top(t).op = "Stdin_lock" THEN Pop(t) ELSE Goto(t, "read")
    /\ UNCHANGED <<onceVars, ops, stdinPoison, stdinReader, panicMsg, nonStdinVars>>

\* Mutation of Stdin_lock: lock().unwrap(), which panics on a poisoned
\* mutex.
Stdin_lock_Unwrap(t) ==
    /\ AtStdinLock(t)
    /\ ~stdinLocked
    /\ IF stdinPoison
       THEN /\ stk' = [stk EXCEPT ![t] = <<>>]
            /\ panicMsg' = [panicMsg EXCEPT ![t] = <<"PoisonError", "none">>]
            /\ UNCHANGED <<stdinLocked, stdinGuards>>
       ELSE /\ stdinLocked' = TRUE
            /\ stdinGuards' = [stdinGuards EXCEPT ![t] = @ + 1]
            /\ IF Top(t).op = "Stdin_lock" THEN Pop(t) ELSE Goto(t, "read")
            /\ UNCHANGED panicMsg
    /\ UNCHANGED <<onceVars, ops, stdinPoison, stdinReader, nonStdinVars>>

\* StdinLock { inner: self.inner.lock().unwrap_or_else(|e| e.into_inner()) }:
\* blocks until no guard exists; a poisoned mutex is taken like any other.
Stdin_lock(t) ==
    /\ AtStdinLock(t)
    /\ ~stdinLocked
    /\ stdinLocked' = TRUE
    /\ stdinGuards' = [stdinGuards EXCEPT ![t] = @ + 1]
    /\ IF Top(t).op = "Stdin_lock" THEN Pop(t) ELSE Goto(t, "read")
    /\ UNCHANGED <<onceVars, ops, stdinPoison, stdinReader, panicMsg, nonStdinVars>>

\* impl Read / BufRead for StdinLock: self.inner.m(buf) starts.
StdinLock_read(t) ==
    /\ ~Idle(t)
    /\ Top(t).op \in StdinMethods
    /\ Top(t).pc = "read"
    /\ stdinReader' = t
    /\ Goto(t, "reading")
    /\ UNCHANGED <<onceVars, ops, stdinLocked, stdinPoison, stdinGuards, panicMsg, nonStdinVars>>

\* self.inner.m(buf) returns; a call on the handle then drops its guard.
StdinLock_read_done(t) ==
    /\ ~Idle(t)
    /\ Top(t).op \in StdinMethods
    /\ Top(t).pc = "reading"
    /\ stdinReader' = IF stdinReader = t THEN 0 ELSE stdinReader
    /\ IF Top(t).flag THEN Goto(t, "unlock") ELSE Pop(t)
    /\ UNCHANGED <<onceVars, ops, stdinLocked, stdinPoison, stdinGuards, panicMsg, nonStdinVars>>

\* Mutation of StdinHandle_drop: the temporary guard is kept.
StdinHandle_drop_Kept(t) ==
    /\ ~Idle(t)
    /\ Top(t).op \in StdinMethods
    /\ Top(t).pc = "unlock"
    /\ Pop(t)
    /\ UNCHANGED <<onceVars, ops, stdinVars, panicMsg, nonStdinVars>>

\* self.lock().m(buf): the temporary guard is dropped at the end of the
\* statement.
StdinHandle_drop(t) ==
    /\ ~Idle(t)
    /\ Top(t).op \in StdinMethods
    /\ Top(t).pc = "unlock"
    /\ stdinGuards' = [stdinGuards EXCEPT ![t] = @ - 1]
    /\ stdinLocked' = FALSE
    /\ Pop(t)
    /\ UNCHANGED <<onceVars, ops, stdinPoison, stdinReader, panicMsg, nonStdinVars>>

\* A StdinLock goes out of scope.
StdinLock_drop(t) ==
    /\ BeginStdin(t)
    /\ stdinGuards[t] > 0
    /\ stdinGuards' = [stdinGuards EXCEPT ![t] = @ - 1]
    /\ stdinLocked' = FALSE
    /\ UNCHANGED <<onceVars, stk, stdinPoison, stdinReader, panicMsg, nonStdinVars>>

\* The thread panics while it holds a StdinLock: the unwinding drops the
\* guard, which poisons the mutex.
StdinLock_panic(t) ==
    /\ BeginStdin(t)
    /\ stdinGuards[t] > 0
    /\ stdinGuards' = [stdinGuards EXCEPT ![t] = @ - 1]
    /\ stdinLocked' = FALSE
    /\ stdinPoison' = TRUE
    /\ UNCHANGED <<onceVars, stk, stdinReader, panicMsg, nonStdinVars>>

NextStdin ==
    \E t \in Threads :
        \/ CallStdinLock(t)
        \/ \E m \in StdinMethods : CallStdinHandle(t, m)
        \/ \E m \in StdinMethods : CallStdinGuard(t, m)
        \/ StdinAccessor(t)
        \/ Accessor(t)
        \/ Stdin_lock(t)
        \/ StdinLock_read(t)
        \/ StdinLock_read_done(t)
        \/ StdinHandle_drop(t)
        \/ StdinLock_drop(t)
        \/ StdinLock_panic(t)

SpecStdin == Init /\ [][NextStdin]_vars

StdinHolders == { t \in Threads : stdinGuards[t] > 0 }
InHandleCall(t) == ~Idle(t) /\ Top(t).op \in StdinMethods /\ Top(t).flag

\* C20: at most one StdinLock guard exists at any time, and the mutex is
\* locked exactly while one exists; a thread is inside the reader only
\* while it holds the guard; a call on a Stdin handle holds the guard from
\* its lock() to its end, where the guard is dropped and the mutex
\* unlocked; Stdin::lock is granted only when no guard exists.
C20_StdinExclusive ==
    /\ [](Cardinality(StdinHolders) <= 1)
    /\ [](stdinLocked <=> StdinHolders # {})
    /\ [](stdinReader # 0 => stdinReader \in StdinHolders)
    /\ [](\A t \in Threads : InHandleCall(t) /\ Top(t).pc \in {"read", "reading", "unlock"} => t \in StdinHolders)
    /\ [][\A t \in Threads : AtStdinLock(t) /\ stk'[t] # stk[t] => ~stdinLocked /\ stdinLocked' /\ StdinHolders' = {t}]_vars
    /\ [][\A t \in Threads : InHandleCall(t) /\ Top(t).pc = "unlock" /\ stk'[t] # stk[t] =>
            Idle(t)' /\ ~stdinLocked' /\ StdinHolders' = {}]_vars

\* C20 witness: one thread is inside read_line on the handle, holding the
\* lock, while the other waits in lock().
C20_Witness ==
    \E t \in Threads : \E u \in Others(t) :
        /\ InHandleCall(t)
        /\ Top(t).op = "read_line"
        /\ Top(t).pc = "reading"
        /\ stdinReader = t
        /\ AtStdinLock(u)
        /\ StdinHolders = {t}

(***************************************************************************)
(* SpecPoison: the two mutexes whose poisoning is ignored, the one of      *)
(* stdin and the one of a capture sink, with the panics that poison them.  *)
(***************************************************************************)
NextPoison ==
    \E t \in Threads :
        \/ CallStdinLock(t)
        \/ StdinAccessor(t)
        \/ Accessor(t)
        \/ Stdin_lock(t)
        \/ StdinLock_panic(t)
        \/ set_output_capture(t, 1)
        \/ _print(t, FmtOuter)
        \/ print_to_take(t)
        \/ print_to_sink_lock(t)
        \/ print_to_sink_write(t)
        \/ print_to_sink_set(t)
        \/ \E e \in GlobalErrors \cup {"none"} : print_to_global(t, e)
        \/ print_to_return(t)
        \/ print_to_unwind(t)

SpecPoison == Init /\ [][NextPoison]_vars

\* C19: poisoning is never surfaced.  A thread that leaves Stdin::lock
\* leaves it with the guard and without a panic, whether or not an earlier
\* holder panicked; a print call that leaves the lock of its sink holds the
\* sink's mutex and has not panicked, whether or not the mutex is poisoned;
\* and a poisoned mutex that is free can be taken.
C19_PoisonIgnored ==
    /\ [][\A t \in Threads : AtStdinLock(t) /\ stk'[t] # stk[t] =>
            t \in StdinHolders' /\ panicMsg'[t] = panicMsg[t]]_vars
    /\ [][\A t \in Threads : At(t, "print_to", "sink_lock") /\ stk'[t] # stk[t] =>
            sinkOwner'[Top(t).sink] = t /\ panicMsg'[t] = panicMsg[t]]_vars
    /\ [](\A t \in Threads : AtStdinLock(t) /\ ~stdinLocked => ENABLED Stdin_lock(t))
    /\ [](\A t \in Threads : At(t, "print_to", "sink_lock") /\ sinkOwner[Top(t).sink] = 0 => ENABLED print_to_sink_lock(t))

\* C19 witness: a thread holds the stdin lock although an earlier holder
\* panicked with it.
C19_Witness ==
    /\ stdinPoison
    /\ StdinHolders # {}

\* C19, second witness: a print call writes into a sink whose mutex was
\* poisoned by a panic during an earlier write.
C19_WitnessSink ==
    \E t \in Threads :
        /\ sinkPoison[1]
        /\ At(t, "print_to", "sink_fmt")
        /\ sinkOwner[1] = t

(***************************************************************************)
(* SpecLine: writes through the stdout handle with buffers of every        *)
(* length up to one past the LineWriter's capacity, with and without a     *)
(* newline.                                                                *)
(***************************************************************************)
Fill(n) == [i \in 1..n |-> "x"]
LineData == {<<"a">>, <<"b", NL>>, <<"c", NL, "d">>, Fill(LineCap - 1), Fill(LineCap), Fill(LineCap + 1)}
LineMethods == {"write", "write_all"}

NextLine ==
    \E t \in Threads :
        \/ \E m \in LineMethods : \E d \in LineData : CallHandle(t, m, d)
        \/ Accessor(t)
        \/ \E m \in LineMethods :
              \/ HandleStdout(t, m)
              \/ HandleLock(t, m)
              \/ StdoutLock_pre(t, m)
              \/ StdoutLock_emit(t, m)
              \/ HandleUnlock(t, m)

SpecLine == Init /\ [][NextLine]_vars

\* The buffer d of the write thread t is in would overflow the buffer.
Overflows(d) == Len(lw.buf) + Len(d) > lw.cap

\* Line buffering, for a given reading fits(d) of "the write fits in the
\* buffer": a write that contains a newline or would overflow first sends
\* every buffered byte to the raw stream, a write with a newline leaves the
\* raw stream ending with its last complete line and no newline in the
\* buffer, and a write without a newline that fits leaves the raw stream
\* as it was.
LineBuffered(strict) ==
    \A t \in Threads : \A m \in LineMethods :
        /\ StdoutLock_pre(t, m) /\ (HasNL(Top(t).data) \/ Overflows(Top(t).data))
              => IsPrefix(rawOut \o lw.buf, rawOut')
        /\ StdoutLock_emit(t, m) /\ HasNL(Top(t).data)
              => /\ ~HasNL(lw'.buf)
                 /\ LET lines == Take(Top(t).data, LinesLen(Top(t).data))
                    IN Len(rawOut') >= Len(lines) /\ Suffix(rawOut', Len(lines)) = lines
        /\ (StdoutLock_pre(t, m) \/ StdoutLock_emit(t, m))
              /\ ~HasNL(Top(t).data) /\ ~Overflows(Top(t).data)
              /\ (strict => Len(Top(t).data) < lw.cap)
              => rawOut' = rawOut

nonStderrVars == <<onceVars, owner, count, lw, borrow, rawOut, guards, log, cleanupState, rawVars, captureVars, stdinVars, consoleVars, tidy>>

ErrFree(t) == errCount = 0 \/ errOwner = t

\* A lock on stderr that lets a second thread in.
Stderr_lock_NoExclusion(t) ==
    /\ errOwner' = t
    /\ errCount' = errCount + 1

\* Stderr::lock: StderrLock { inner: self.inner.lock() }
Stderr_lock(t) ==
    /\ ErrFree(t)
    /\ errOwner' = t
    /\ errCount' = errCount + 1

\* Mutation: dropping any StderrLock releases the mutex.
StderrLock_drop_ReleasesAll ==
    /\ errCount' = 0
    /\ errOwner' = 0

\* A StderrLock going out of scope releases one acquisition.
StderrLock_drop ==
    /\ errCount' = errCount - 1
    /\ errOwner' = IF errCount = 1 THEN 0 ELSE errOwner

\* io::stderr().m(d)
CallStderrHandle(t, m, d) ==
    /\ Begin(t)
    /\ Push(t, Frame(m, "estderr", d, <<>>, TRUE))
    /\ UNCHANGED <<stderrVars, nonStderrVars>>

\* guard.m(d) on a StderrLock the thread holds.
CallStderrGuard(t, m, d) ==
    /\ Begin(t)
    /\ errGuards[t] > 0
    /\ Push(t, Frame(m, "ewrite", d, <<>>, FALSE))
    /\ UNCHANGED <<stderrVars, nonStderrVars>>

\* let g = io::stderr().lock()
CallStderrLock(t) ==
    /\ Begin(t)
    /\ Push(t, Frame("Stderr_lock", "estderr", <<>>, <<>>, FALSE))
    /\ UNCHANGED <<stderrVars, nonStderrVars>>

\* The call gets the handle from stderr().
HandleStderr(t) ==
    /\ ~Idle(t) /\ Top(t).pc = "estderr"
    /\ Call(t, "elock", Frame("stderr", "get", <<>>, <<>>, FALSE))
    /\ UNCHANGED <<ops, stderrVars, nonStderrVars>>

\* impl Write for &Stderr: self.lock()
StderrHandleLock(t, m) ==
    /\ At(t, m, "elock")
    /\ Stderr_lock(t)
    /\ Goto(t, "ewrite")
    /\ UNCHANGED <<ops, errGuards, rawErr, errDone, nonStderrVars>>

StderrLockAcquire(t) ==
    /\ At(t, "Stderr_lock", "elock")
    /\ Stderr_lock(t)
    /\ errGuards' = [errGuards EXCEPT ![t] = @ + 1]
    /\ Pop(t)
    /\ UNCHANGED <<ops, rawErr, errDone, nonStderrVars>>

\* Counts the raw stream may accept of buffer d in method m.
Accepted(m, d) == IF m = "write" THEN 1..Len(d) ELSE {Len(d)}

\* Mutation: the bytes are kept in a buffer and do not reach the raw stream.
StderrLock_write_Buffered(t, m) ==
    /\ At(t, m, "ewrite")
    /\ stk' = [stk EXCEPT ![t][Len(stk[t])].pieces = Top(t).data,
                          ![t][Len(stk[t])].pc = IF Top(t).flag THEN "eunlock" ELSE "eret"]
    /\ UNCHANGED <<ops, errOwner, errCount, errGuards, rawErr, errDone, nonStderrVars>>

\* impl Write for StderrLock: self.inner.borrow_mut().m(buf); the frame keeps
\* the bytes accepted.
StderrLock_write(t, m) ==
    /\ At(t, m, "ewrite")
    /\ \E n \in Accepted(m, Top(t).data) :
          /\ rawErr' = rawErr \o Take(Top(t).data, n)
          /\ stk' = [stk EXCEPT ![t][Len(stk[t])].pieces = Take(Top(t).data, n),
                                ![t][Len(stk[t])].pc = IF Top(t).flag THEN "eunlock" ELSE "eret"]
    /\ UNCHANGED <<ops, errOwner, errCount, errGuards, errDone, nonStderrVars>>

\* The call on a guard returns.
StderrLock_ret(t, m) ==
    /\ At(t, m, "eret")
    /\ errDone' = errDone \o Top(t).pieces
    /\ Pop(t)
    /\ UNCHANGED <<ops, errOwner, errCount, errGuards, rawErr, nonStderrVars>>

\* impl Write for &Stderr: the temporary StderrLock is dropped and the call
\* returns.
StderrHandle_drop(t, m) ==
    /\ At(t, m, "eunlock")
    /\ StderrLock_drop
    /\ errDone' = errDone \o Top(t).pieces
    /\ Pop(t)
    /\ UNCHANGED <<ops, errGuards, rawErr, nonStderrVars>>

\* drop(g) of a StderrLock
DropStderrGuard(t) ==
    /\ Begin(t)
    /\ errGuards[t] > 0
    /\ errGuards' = [errGuards EXCEPT ![t] = @ - 1]
    /\ StderrLock_drop
    /\ UNCHANGED <<stk, rawErr, errDone, nonStderrVars>>

(***************************************************************************)
(* SpecStderr: threads writing to stderr through the handle and through    *)
(* guards they keep.                                                       *)
(***************************************************************************)
ErrMethods == {"write", "write_all"}
ErrData == {<<"a">>, <<"b", NL>>}

NextStderr ==
    \E t \in Threads :
        \/ Accessor(t)
        \/ CallStderrLock(t)
        \/ HandleStderr(t)
        \/ StderrLockAcquire(t)
        \/ DropStderrGuard(t)
        \/ \E m \in ErrMethods :
              \/ \E d \in ErrData : CallStderrHandle(t, m, d)
              \/ \E d \in ErrData : CallStderrGuard(t, m, d)
              \/ StderrHandleLock(t, m)
              \/ StderrLock_write(t, m)
              \/ StderrLock_ret(t, m)
              \/ StderrHandle_drop(t, m)

SpecStderr == Init /\ [][NextStderr]_vars

\* A stderr write whose bytes the raw stream has taken and that has not
\* returned yet.
ErrInFlight == \E t \in Threads : \E i \in 1..Len(stk[t]) : stk[t][i].pc \in {"eret", "eunlock"}

\* C23: stderr is unbuffered: the raw stderr stream always holds the bytes
\* of every stderr write that has returned, in the order the writes
\* returned, and nothing else unless a write is in progress.
C23_StderrUnbuffered ==
    /\ IsPrefix(errDone, rawErr)
    /\ ~ErrInFlight => rawErr = errDone

\* C23 witness: a write through a guard the thread still holds and a write
\* through the handle have returned, and the raw stream holds exactly their
\* bytes.
C23_Witness ==
    /\ errDone = <<"b", NL, "a">>
    /\ rawErr = errDone
    /\ \E t \in Threads : errGuards[t] > 0 /\ Idle(t)
    /\ ops = MaxOps

(***************************************************************************)
(* SpecGuards: threads taking, nesting and dropping guards of stdout and   *)
(* stderr, writing through them, and writing through the handles.  Each    *)
(* thread writes its own text.  ops starts below zero: a run starts        *)
(* MaxGuardOps calls.                                                      *)
(***************************************************************************)
MaxGuardOps == 5
GuardText(t) == IF t = 1 THEN <<"a">> ELSE <<"b", NL>>

InitGuards ==
    /\ InitOnce /\ InitHandle /\ InitRawIdle /\ InitCapture /\ InitStdin /\ InitExt
    /\ ops = MaxOps - MaxGuardOps

NextGuards ==
    \E t \in Threads :
        \/ Accessor(t)
        \/ CallLock(t)
        \/ LockStdout(t)
        \/ LockAcquire(t)
        \/ DropGuard(t)
        \/ CallHandle(t, "write_all", GuardText(t))
        \/ CallGuard(t, "write_all", GuardText(t))
        \/ HandleStdout(t, "write_all")
        \/ HandleLock(t, "write_all")
        \/ StdoutLock_pre(t, "write_all")
        \/ StdoutLock_emit(t, "write_all")
        \/ HandleUnlock(t, "write_all")
        \/ CallStderrLock(t)
        \/ HandleStderr(t)
        \/ StderrLockAcquire(t)
        \/ DropStderrGuard(t)
        \/ CallStderrHandle(t, "write_all", GuardText(t))
        \/ CallStderrGuard(t, "write_all", GuardText(t))
        \/ StderrHandleLock(t, "write_all")
        \/ StderrLock_write(t, "write_all")
        \/ StderrLock_ret(t, "write_all")
        \/ StderrHandle_drop(t, "write_all")

SpecGuards == InitGuards /\ [][NextGuards]_vars

\* new is old followed by bytes of thread t's text only.
OwnBytes(t) == {GuardText(t)[i] : i \in 1..Len(GuardText(t))}
Appended(old, new, t) ==
    /\ IsPrefix(old, new)
    /\ \A i \in (Len(old) + 1)..Len(new) : new[i] \in OwnBytes(t)

\* C24: the sink of each stream only grows at its end, so bytes written
\* later come later; and while a thread keeps a StdoutLock (StderrLock)
\* across a step, every byte the step adds to the sink of stdout (stderr)
\* is a byte of that thread's own writes: the writes through the guard are
\* contiguous in the sink, in the order they were issued.
C24_GuardWritesContiguous ==
    [][/\ IsPrefix(Sink, Sink')
       /\ IsPrefix(rawErr, rawErr')
       /\ \A t \in Threads :
             /\ guards[t] > 0 /\ guards'[t] > 0 => Appended(Sink, Sink', t)
             /\ errGuards[t] > 0 /\ errGuards'[t] > 0 => Appended(rawErr, rawErr', t)]_vars

\* C24 witness: thread 1 wrote twice through a StdoutLock it still holds
\* while a write of thread 2 through the handle waits for the lock.
C24_Witness ==
    /\ guards[1] > 0
    /\ Sink = GuardText(1) \o GuardText(1)
    /\ At(2, "write_all", "lock")

\* C24, stderr: the same with a StderrLock, thread 2 holding.
C24_WitnessStderr ==
    /\ errGuards[2] > 0
    /\ rawErr = GuardText(2) \o GuardText(2)
    /\ At(1, "write_all", "elock")

\* C25: a thread keeping guards owns the lock; dropping one of several
\* nested guards leaves the lock with the thread and no other thread can
\* take it; dropping the last one frees it; and the lock passes to another
\* thread only when it is free.  For stdout and for stderr.
C25_LastGuardReleases ==
    [][\A t \in Threads :
          /\ guards[t] > 0 => owner = t
          /\ errGuards[t] > 0 => errOwner = t
          /\ DropGuard(t) /\ guards[t] > 1
                => owner' = t /\ count' >= 1 /\ \A u \in Others(t) : ~(count' = 0 \/ owner' = u)
          /\ DropGuard(t) /\ count = 1 => count' = 0 /\ owner' = 0
          /\ DropStderrGuard(t) /\ errGuards[t] > 1
                => errOwner' = t /\ errCount' >= 1 /\ \A u \in Others(t) : ~(errCount' = 0 \/ errOwner' = u)
          /\ DropStderrGuard(t) /\ errCount = 1 => errCount' = 0 /\ errOwner' = 0
          /\ owner' = t /\ owner # t => count = 0
          /\ errOwner' = t /\ errOwner # t => errCount = 0]_vars

\* C25 witness: thread 1 took two StdoutLock guards and dropped one; it
\* still owns the lock and thread 2 waits in lock().
C25_Witness ==
    /\ guards[1] = 1 /\ owner = 1 /\ count = 1
    /\ At(2, "lock", "lock")
    /\ log = <<>> /\ once["stderr"] = "incomplete"
    /\ ops = MaxOps - MaxGuardOps + 4

\* C25, stderr: the same with StderrLock guards.
C25_WitnessStderr ==
    /\ errGuards[1] = 1 /\ errOwner = 1 /\ errCount = 1
    /\ At(2, "Stderr_lock", "elock")
    /\ rawErr = <<>> /\ once["stdout"] = "incomplete"
    /\ ops = MaxOps - MaxGuardOps + 4

(***************************************************************************)
(* SpecFair: threads taking and dropping guards of the three streams,      *)
(* under weak fairness of the steps a started call takes (the accessor,    *)
(* the lock).  Starting a call and dropping a guard are the program's      *)
(* choice and carry no fairness.  A guard that is forgotten is never       *)
(* dropped, so LeakGuard is not part of this specification.                *)
(***************************************************************************)
FairCall(t) ==
    \/ CallLock(t)
    \/ DropGuard(t)
    \/ CallStderrLock(t)
    \/ DropStderrGuard(t)
    \/ CallStdinLock(t)
    \/ StdinLock_drop(t)

FairStep(t) ==
    \/ Accessor(t)
    \/ LockStdout(t)
    \/ LockAcquire(t)
    \/ HandleStderr(t)
    \/ StderrLockAcquire(t)
    \/ StdinAccessor(t)
    \/ Stdin_lock(t)

NextFair == \E t \in Threads : FairCall(t) \/ FairStep(t)

SpecFair == Init /\ [][NextFair]_vars /\ \A t \in Threads : WF_vars(FairStep(t))

\* Thread t keeps a guard of stream k; thread t is inside lock() of stream k.
Holds(t, k) ==
    CASE k = "stdout" -> guards[t] > 0
      [] k = "stderr" -> errGuards[t] > 0
      [] OTHER -> stdinGuards[t] > 0
InLock(t, k) ==
    CASE k = "stdout" -> At(t, "lock", "lock")
      [] k = "stderr" -> At(t, "Stderr_lock", "elock")
      [] OTHER -> At(t, "Stdin_lock", "lock")

nonConsoleVars == <<onceVars, stdoutVars, rawVars, captureVars, stdinVars, stderrVars, tidy>>

TestResults == {"TrOk", "TrIgnored", "TrAllowedFail", "TrBench", "TrFailed", "TrFailedMsg", "TrTimedFail"}
\* What test i printed, and the note made of the message of TrFailedMsg.
Stdout(i) == <<"stdout of ", i>>
Note == <<"note: ", "msg">>
CompletedTest(i, r) == [desc |-> i, result |-> r, stdout |-> Stdout(i)]

TeFiltered(tests) == [type |-> "TeFiltered", tests |-> tests]
TeFilteredOut(n) == [type |-> "TeFilteredOut", n |-> n]
TeWait(i) == [type |-> "TeWait", desc |-> i]
TeTimeout(i) == [type |-> "TeTimeout", desc |-> i]
TeResult(ct) == [type |-> "TeResult", test |-> ct]

\* ConsoleTestState::current_test_count
current_test_count(s) == s.passed + s.failed + s.ignored + s.measured + s.allowed_fail

\* Mutation of handle_test_result: a timed failure is listed and not counted.
handle_test_result_TimedFailUncounted(s, ct) ==
    CASE ct.result = "TrOk" ->
            [s EXCEPT !.passed = @ + 1, !.not_failures = Append(@, <<ct.desc, ct.stdout>>)]
      [] ct.result = "TrIgnored" -> [s EXCEPT !.ignored = @ + 1]
      [] ct.result = "TrAllowedFail" -> [s EXCEPT !.allowed_fail = @ + 1]
      [] ct.result = "TrBench" ->
            [s EXCEPT !.metrics = @ \cup {ct.desc}, !.measured = @ + 1]
      [] ct.result = "TrFailed" ->
            [s EXCEPT !.failed = @ + 1, !.failures = Append(@, <<ct.desc, ct.stdout>>)]
      [] ct.result = "TrFailedMsg" ->
            [s EXCEPT !.failed = @ + 1, !.failures = Append(@, <<ct.desc, ct.stdout \o Note>>)]
      [] ct.result = "TrTimedFail" ->
            [s EXCEPT !.time_failures = Append(@, <<ct.desc, ct.stdout>>)]

\* Mutation of handle_test_result: a failure is listed with the output of
\* the failure listed before it.
handle_test_result_PreviousOutput(s, ct) ==
    CASE ct.result = "TrOk" ->
            [s EXCEPT !.passed = @ + 1, !.not_failures = Append(@, <<ct.desc, ct.stdout>>)]
      [] ct.result = "TrIgnored" -> [s EXCEPT !.ignored = @ + 1]
      [] ct.result = "TrAllowedFail" -> [s EXCEPT !.allowed_fail = @ + 1]
      [] ct.result = "TrBench" ->
            [s EXCEPT !.metrics = @ \cup {ct.desc}, !.measured = @ + 1]
      [] ct.result = "TrFailed" ->
            [s EXCEPT !.failed = @ + 1,
                      !.failures = Append(@, <<ct.desc, IF @ = <<>> THEN ct.stdout ELSE @[Len(@)][2]>>)]
      [] ct.result = "TrFailedMsg" ->
            [s EXCEPT !.failed = @ + 1, !.failures = Append(@, <<ct.desc, ct.stdout \o Note>>)]
      [] ct.result = "TrTimedFail" ->
            [s EXCEPT !.failed = @ + 1, !.time_failures = Append(@, <<ct.desc, ct.stdout>>)]

\* Mutation of handle_test_result: an ignored test is listed with the tests
\* that did not fail.
handle_test_result_IgnoredListed(s, ct) ==
    CASE ct.result = "TrOk" ->
            [s EXCEPT !.passed = @ + 1, !.not_failures = Append(@, <<ct.desc, ct.stdout>>)]
      [] ct.result = "TrIgnored" ->
            [s EXCEPT !.ignored = @ + 1, !.not_failures = Append(@, <<ct.desc, ct.stdout>>)]
      [] ct.result = "TrAllowedFail" -> [s EXCEPT !.allowed_fail = @ + 1]
      [] ct.result = "TrBench" ->
            [s EXCEPT !.metrics = @ \cup {ct.desc}, !.measured = @ + 1]
      [] ct.result = "TrFailed" ->
            [s EXCEPT !.failed = @ + 1, !.failures = Append(@, <<ct.desc, ct.stdout>>)]
      [] ct.result = "TrFailedMsg" ->
            [s EXCEPT !.failed = @ + 1, !.failures = Append(@, <<ct.desc, ct.stdout \o Note>>)]
      [] ct.result = "TrTimedFail" ->
            [s EXCEPT !.failed = @ + 1, !.time_failures = Append(@, <<ct.desc, ct.stdout>>)]

handle_test_result(s, ct) ==
    CASE ct.result = "TrOk" ->
            [s EXCEPT !.passed = @ + 1, !.not_failures = Append(@, <<ct.desc, ct.stdout>>)]
      [] ct.result = "TrIgnored" -> [s EXCEPT !.ignored = @ + 1]
      [] ct.result = "TrAllowedFail" -> [s EXCEPT !.allowed_fail = @ + 1]
      [] ct.result = "TrBench" ->
            [s EXCEPT !.metrics = @ \cup {ct.desc}, !.measured = @ + 1]
      [] ct.result = "TrFailed" ->
            [s EXCEPT !.failed = @ + 1, !.failures = Append(@, <<ct.desc, ct.stdout>>)]
      [] ct.result = "TrFailedMsg" ->
            [s EXCEPT !.failed = @ + 1, !.failures = Append(@, <<ct.desc, ct.stdout \o Note>>)]
      [] ct.result = "TrTimedFail" ->
            [s EXCEPT !.failed = @ + 1, !.time_failures = Append(@, <<ct.desc, ct.stdout>>)]

\* Mutation of on_test_event: a timeout is counted as a failure.
on_test_event_TimeoutCounts(s, event, io) ==
    IF event.type = "TeTimeout"
    THEN [st |-> [s EXCEPT !.failed = @ + 1], ret |-> IF io = "fmt" THEN "Err" ELSE "Ok"]
    ELSE IF event.type = "TeResult" /\ io = "ok"
    THEN [st |-> handle_test_result(s, event.test), ret |-> "Ok"]
    ELSE [st |-> IF event.type = "TeFiltered" THEN [s EXCEPT !.total = Cardinality(event.tests)] ELSE s,
          ret |-> IF io = "ok" THEN "Ok" ELSE "Err"]

\* What on_test_event leaves and returns.
Returned(s, r) == [st |-> s, ret |-> r]

on_test_event(s, event, io) ==
    CASE event.type = "TeFiltered" ->
            Returned([s EXCEPT !.total = Cardinality(event.tests)], IF io = "fmt" THEN "Err" ELSE "Ok")
      [] event.type = "TeFilteredOut" ->
            Returned([s EXCEPT !.filtered_out = event.n], "Ok")
      [] event.type \in {"TeWait", "TeTimeout"} ->
            Returned(s, IF io = "fmt" THEN "Err" ELSE "Ok")
      [] event.type = "TeResult" ->
            IF s.log_out /\ io = "log" THEN Returned(s, "Err")
            ELSE IF io = "fmt" THEN Returned(s, "Err")
            ELSE Returned(handle_test_result(s, event.test), "Ok")

\* The writes that may fail while the event is handled.
IoOutcomes(s, type) ==
    CASE type = "TeFilteredOut" -> {"ok"}
      [] type = "TeResult" /\ s.log_out -> {"ok", "log", "fmt"}
      [] OTHER -> {"ok", "fmt"}

\* run_tests_console up to the call of run_tests.
run_tests_console(logfile, tests) ==
    /\ run.pc = "none"
    /\ st' = ConsoleTestState_new(logfile)
    /\ run' = [run EXCEPT !.pc = "filtered", !.tests = tests]
    /\ UNCHANGED nonConsoleVars

\* run_tests delivers an event: notify_about_test_event(event)?
Notify(event, io, pc, phase, seen) ==
    LET r == on_test_event(st, event, io)
    IN /\ st' = r.st
       /\ run' = IF r.ret = "Err" THEN [run EXCEPT !.pc = "err"]
                 ELSE [run EXCEPT !.pc = pc, !.phase = phase, !.seen = @ \cup seen, !.nres = @ + Cardinality(seen)]
       /\ UNCHANGED nonConsoleVars

run_tests_filtered ==
    /\ run.pc = "filtered"
    /\ \E io \in IoOutcomes(st, "TeFiltered") :
          Notify(TeFiltered(run.tests), io, "filtered_out",
                 [i \in AllTests |-> IF i \in run.tests THEN "new" ELSE "none"], {})

run_tests_filtered_out ==
    /\ run.pc = "filtered_out"
    /\ Notify(TeFilteredOut(Cardinality(AllTests \ run.tests)), "ok", "running", run.phase, {})

run_tests_wait(i) ==
    /\ run.pc = "running"
    /\ run.phase[i] = "new"
    /\ \E io \in IoOutcomes(st, "TeWait") :
          Notify(TeWait(i), io, "running", [run.phase EXCEPT ![i] = "wait"], {})

run_tests_timeout(i) ==
    /\ run.pc = "running"
    /\ run.phase[i] = "wait"
    /\ \E io \in IoOutcomes(st, "TeTimeout") :
          Notify(TeTimeout(i), io, "running", [run.phase EXCEPT ![i] = "timeout"], {})

run_tests_result(i, r) ==
    /\ run.pc = "running"
    /\ run.phase[i] \in {"wait", "timeout"}
    /\ \E io \in IoOutcomes(st, "TeResult") :
          Notify(TeResult(CompletedTest(i, r)), io, "running", [run.phase EXCEPT ![i] = "done"], {<<i, r>>})

\* run_tests returned Ok: assert!(st.current_test_count() == st.total), then
\* out.write_run_finish(&st).
run_tests_console_finish ==
    /\ run.pc = "running"
    /\ \A i \in run.tests : run.phase[i] = "done"
    /\ run' = [run EXCEPT !.pc = IF current_test_count(st) = st.total THEN "finished" ELSE "panicked"]
    /\ UNCHANGED <<st, nonConsoleVars>>

NextConsole ==
    \/ \E logfile \in BOOLEAN : \E tests \in SUBSET AllTests : run_tests_console(logfile, tests)
    \/ run_tests_filtered
    \/ run_tests_filtered_out
    \/ \E i \in AllTests : run_tests_wait(i)
    \/ \E i \in AllTests : run_tests_timeout(i)
    \/ \E i \in AllTests : \E r \in TestResults : run_tests_result(i, r)
    \/ run_tests_console_finish

SpecConsole == Init /\ [][NextConsole]_vars

\* C26: the assertion before write_run_finish never fails: when run_tests
\* has returned, with one result delivered for every filtered test, the
\* five counters add up to total, the number of filtered tests.
C26_AssertionHolds ==
    /\ run.pc # "panicked"
    /\ run.pc = "finished" =>
          /\ \A i \in run.tests : Cardinality({p \in run.seen : p[1] = i}) = 1
          /\ st.total = Cardinality(run.tests)
          /\ current_test_count(st) = st.total

\* C26 witness: a run of three tests finished, with a pass, a timed
\* failure and a benchmark among the results.
C26_Witness ==
    /\ run.pc = "finished"
    /\ st.total = 3
    /\ st.passed = 1 /\ st.measured = 1 /\ Len(st.time_failures) = 1

\* The entries a list must hold for the results in seen whose kind is in
\* kinds: one for each, with the test's own name and output.
Entry(p) == <<p[1], IF p[2] = "TrFailedMsg" THEN Stdout(p[1]) \o Note ELSE Stdout(p[1])>>
Entries(seen, kinds) == {Entry(p) : p \in {q \in seen : q[2] \in kinds}}
Count(seen, kinds) == Cardinality({q \in seen : q[2] \in kinds})
Holds_(list, seen, kinds) ==
    /\ Len(list) = Count(seen, kinds)
    /\ {list[j] : j \in 1..Len(list)} = Entries(seen, kinds)

\* C27: the counters and, as multisets, the three lists are a function of
\* the set of results handled so far (one result for a test), whatever the
\* order in which the events of the tests arrived; every entry is the
\* test's own name with its own output.
C27_OrderIndependent ==
    /\ st.passed = Count(run.seen, {"TrOk"})
    /\ st.failed = Count(run.seen, {"TrFailed", "TrFailedMsg", "TrTimedFail"})
    /\ st.ignored = Count(run.seen, {"TrIgnored"})
    /\ st.allowed_fail = Count(run.seen, {"TrAllowedFail"})
    /\ st.measured = Count(run.seen, {"TrBench"})
    /\ Holds_(st.failures, run.seen, {"TrFailed", "TrFailedMsg"})
    /\ Holds_(st.not_failures, run.seen, {"TrOk"})
    /\ Holds_(st.time_failures, run.seen, {"TrTimedFail"})

\* C27 witness: t2 failed before t1 failed with a message, t3 passed after
\* a timeout was reported for it, and the run finished.
C27_Witness ==
    /\ run.pc = "finished"
    /\ st.failures = << <<"t2", Stdout("t2")>>, <<"t1", Stdout("t1") \o Note>> >>
    /\ st.not_failures = << <<"t3", Stdout("t3")>> >>

\* The five counters.
Counters(s) == <<s.passed, s.failed, s.ignored, s.measured, s.allowed_fail>>
Lists(s) == <<s.failures, s.not_failures, s.time_failures>>

\* C29: the five counters always add up to the number of result events
\* handled; handling a result event adds one to exactly one of them and
\* leaves the other four; a test-start or timeout event leaves the counters
\* and the three lists as they are.
C29_CountersCountResults ==
    [][/\ current_test_count(st) = run.nres
       /\ current_test_count(st') = run'.nres
       /\ \A i \in AllTests :
             /\ (\E r \in TestResults : run_tests_result(i, r)) /\ run'.pc # "err"
                   => \E k \in 1..5 :
                         /\ Counters(st')[k] = Counters(st)[k] + 1
                         /\ \A j \in (1..5) \ {k} : Counters(st')[j] = Counters(st)[j]
             /\ run_tests_wait(i) \/ run_tests_timeout(i)
                   => Counters(st') = Counters(st) /\ Lists(st') = Lists(st)]_vars

\* C29 witness: two results handled and a third test reported as timed out,
\* its result still to come.
C29_Witness ==
    /\ run.nres = 2
    /\ st.ignored = 1 /\ st.allowed_fail = 1
    /\ \E i \in AllTests : run.phase[i] = "timeout"

(***************************************************************************)
(* src/tools/tidy/src/extdeps.rs: check(root, bad).  A line of Cargo.lock  *)
(* is a sequence of tokens: the words "source" and "name", the characters  *)
(* " " and "=", and pieces of source values.  The registry source is the   *)
(* one token "R"; the git source, which contains a '=' ("?tag=..."), is    *)
(* "G", "=", "T".                                                          *)
(***************************************************************************)
nonTidyVars == <<onceVars, stdoutVars, rawVars, captureVars, stdinVars, stderrVars, consoleVars>>

ALLOWED_SOURCES == { <<"R">>, <<"G", "=", "T">> }
SourcePrefix == <<"source", " ", "=", " ">>

\* Lines per file.
MaxLines == 2
LockLines ==
    { SourcePrefix \o <<"R">>,
      SourcePrefix \o <<"G", "=", "T">>,
      SourcePrefix \o <<"X">>,
      SourcePrefix \o <<"T">>,
      SourcePrefix \o <<"R", " ">>,
      SourcePrefix \o <<" ", "G", "=", "T">>,
      SourcePrefix,
      <<"source", " ", "=", "X">>,
      <<" ">> \o SourcePrefix \o <<"X">>,
      <<"name", " ", "=", " ", "X">>,
      <<>> }
LockFiles == UNION { [1..n -> LockLines] : n \in 0..MaxLines }

starts_with(line, p) == IsPrefix(p, line)

\* Mutation of split_once: the parts around the last ch, as rsplit_once.
split_once_Last(line, ch) ==
    LET i == CHOOSE i \in 1..Len(line) : line[i] = ch /\ \A j \in (i + 1)..Len(line) : line[j] # ch
    IN <<Take(line, i - 1), Drop(line, i)>>

\* str::split_once: the parts around the first ch.
split_once(line, ch) ==
    LET i == CHOOSE i \in 1..Len(line) : line[i] = ch /\ \A j \in 1..(i - 1) : line[j] # ch
    IN <<Take(line, i - 1), Drop(line, i)>>

RECURSIVE trim(_)
trim(x) ==
    IF x = <<>> THEN x
    ELSE IF Head(x) = " " THEN trim(Tail(x))
    ELSE IF x[Len(x)] = " " THEN trim(Take(x, Len(x) - 1))
    ELSE x

\* check(root, bad) is called; t!(fs::read_to_string(&path)) panics when
\* the file cannot be read.
check_call(readable, file, bad) ==
    /\ tidy.pc = "none"
    /\ tidy' = IF readable
               THEN [pc |-> "lines", lines |-> file, i |-> 1, bad |-> bad, bad0 |-> bad, errors |-> <<>>]
               ELSE [pc |-> "panic", lines |-> <<>>, i |-> 1, bad |-> bad, bad0 |-> bad, errors |-> <<>>]
    /\ UNCHANGED nonTidyVars

\* One turn of the loop over cargo_lock.lines(); tidy_error! sets the flag
\* and reports the source.
check_line ==
    /\ tidy.pc = "lines"
    /\ tidy.i <= Len(tidy.lines)
    /\ LET line == tidy.lines[tidy.i]
       IN IF ~starts_with(line, SourcePrefix)
          THEN tidy' = [tidy EXCEPT !.i = @ + 1]
          ELSE LET source == trim(split_once(line, "=")[2])
               IN IF source \notin ALLOWED_SOURCES
                  THEN tidy' = [tidy EXCEPT !.i = @ + 1, !.bad = TRUE, !.errors = Append(@, source)]
                  ELSE tidy' = [tidy EXCEPT !.i = @ + 1]
    /\ UNCHANGED nonTidyVars

check_return ==
    /\ tidy.pc = "lines"
    /\ tidy.i > Len(tidy.lines)
    /\ tidy' = [tidy EXCEPT !.pc = "done"]
    /\ UNCHANGED nonTidyVars

NextTidy ==
    \/ \E readable \in BOOLEAN : \E file \in LockFiles : \E bad \in BOOLEAN : check_call(readable, file, bad)
    \/ check_line
    \/ check_return

SpecTidy == Init /\ [][NextTidy]_vars

\* A line that starts with "source = " and whose value, the part after its
\* first '=' without the surrounding blanks, is not an allowed source.
BadSourceLine(line) ==
    /\ Len(line) >= 4
    /\ line[1] = "source" /\ line[2] = " " /\ line[3] = "=" /\ line[4] = " "
    /\ \A a \in ALLOWED_SOURCES :
          \A lead \in 0..Len(line) : \A trail \in 0..Len(line) :
              line # Take(line, 3) \o [j \in 1..lead |-> " "] \o a \o [j \in 1..trail |-> " "]

\* C30: when check() returns it has set the flag (reported a source) if and
\* only if some line of the file starts with "source = " and has a value
\* that is not allowed; the flag is then true if it was true at the call or
\* has been set; and a flag that is true at the call is true at every
\* point of the call.
C30_BadIffDisallowedSource ==
    /\ tidy.pc = "done" =>
          /\ tidy.errors # <<>> <=> \E i \in 1..Len(tidy.lines) : BadSourceLine(tidy.lines[i])
          /\ tidy.bad <=> (tidy.bad0 \/ tidy.errors # <<>>)
    /\ tidy.pc # "none" /\ tidy.bad0 => tidy.bad

\* C30 witness: check() returned with the flag set for a file whose first
\* line is the allowed git source (its value contains a '=') and whose
\* second line is a source that is not allowed.
C30_Witness ==
    /\ tidy.pc = "done"
    /\ ~tidy.bad0 /\ tidy.bad
    /\ tidy.lines = << SourcePrefix \o <<"G", "=", "T">>, SourcePrefix \o <<"X">> >>
    /\ tidy.errors = << <<"X">> >>

(***************************************************************************)
(* SpecSink: print_to writing into a capture sink with formatting          *)
(* arguments whose Display implementations call set_output_capture, print, *)
(* return an error or panic.                                               *)
(***************************************************************************)
\* "a{}{}b": a literal, two arguments, a literal.
FmtArgs == << Lit(<<"a">>), Arg(<<"x">>), Arg(<<"y">>), Lit(<<"b">>) >>
MaxSinkOps == 2

\* write_fmt has reached a formatting argument.
AtArg(t) ==
    /\ At(t, "print_to", "sink_fmt")
    /\ Top(t).pieces # <<>>
    /\ Head(Top(t).pieces).nested

\* The argument's Display implementation calls set_output_capture(sink)
\* and writes nothing.
fmt_set_output_capture(t, sink) ==
    /\ AtArg(t)
    /\ SetTop(t, [Top(t) EXCEPT !.pieces = Tail(@)])
    /\ IF sink = 0 /\ ~captureUsed
       THEN /\ lastRet' = [lastRet EXCEPT ![t] = 0]
            /\ UNCHANGED <<captureUsed, slot>>
       ELSE /\ captureUsed' = TRUE
            /\ IF tlsAlive[t]
               THEN /\ slot' = [slot EXCEPT ![t] = sink]
                    /\ lastRet' = [lastRet EXCEPT ![t] = slot[t]]
               ELSE /\ lastRet' = [lastRet EXCEPT ![t] = Panicked]
                    /\ UNCHANGED slot
    /\ lastArg' = [lastArg EXCEPT ![t] = sink]
    /\ UNCHANGED <<ops, tlsAlive, sinkBuf, sinkOwner, sinkPoison, gOut, printed, panicMsg>>
    /\ UNCHANGED nonCaptureVars

\* The argument's Display implementation returns an error: write_fmt stops
\* and returns Err("formatter error"); the bytes written so far stay in the
\* sink (a Vec<u8>, whose own writes cannot fail).
print_to_sink_write_err(t) ==
    /\ AtArg(t)
    /\ SetTop(t, [Top(t) EXCEPT !.pieces = <<>>, !.sinkErr = TRUE])
    /\ UNCHANGED <<ops, captureUsed, slot, tlsAlive, sinkBuf, sinkOwner, sinkPoison, gOut, lastRet, lastArg, printed, panicMsg>>
    /\ UNCHANGED nonCaptureVars

\* The argument's Display implementation panics: the unwinding drops the
\* sink's guard, which poisons the mutex, and skips s.set(Some(w)).
print_to_sink_write_panic(t) ==
    /\ AtArg(t)
    /\ Goto(t, "panic")
    /\ sinkOwner' = [sinkOwner EXCEPT ![Top(t).sink] = 0]
    /\ sinkPoison' = [sinkPoison EXCEPT ![Top(t).sink] = TRUE]
    /\ panicMsg' = [panicMsg EXCEPT ![t] = <<"Display", "none">>]
    /\ UNCHANGED <<ops, captureUsed, slot, tlsAlive, sinkBuf, gOut, lastRet, lastArg, printed>>
    /\ UNCHANGED nonCaptureVars

InitSink ==
    /\ InitOnce /\ InitHandle /\ InitRawIdle /\ InitCapture /\ InitStdin /\ InitExt
    /\ ops = MaxCaptureOps - MaxSinkOps

NextSink ==
    \E t \in Threads :
        \/ \E s \in SinkIds \cup {0} : set_output_capture(t, s)
        \/ _print(t, FmtArgs)
        \/ print_to_take(t)
        \/ print_to_sink_lock(t)
        \/ print_to_sink_write(t)
        \/ \E s \in SinkIds \cup {0} : fmt_set_output_capture(t, s)
        \/ print_to_sink_write_err(t)
        \/ print_to_sink_write_panic(t)
        \/ print_to_sink_set(t)
        \/ \E e \in GlobalErrors \cup {"none"} : print_to_global(t, e)
        \/ print_to_return(t)
        \/ print_to_unwind(t)

SpecSink == InitSink /\ [][NextSink]_vars

Unwinding(t) == \E f \in FramesOf(t) : f.pc = "panic"

\* C31: a print call that returns on a thread whose slot held sink S when
\* the call was made leaves S in the slot, whatever set_output_capture calls
\* the formatting of its arguments made in between; while a panic unwinds
\* the thread's print calls no step changes the thread's slot, so S is not
\* put back.
C31_SinkPutBack ==
    /\ [](\A t \in Threads :
            At(t, "print_to", "ret") /\ Top(t).expect # 0 => slot[t] = Top(t).expect)
    /\ [][\A t \in Threads : Unwinding(t) => slot'[t] = slot[t]]_vars

\* C31 witness: a print made with sink 1 installed has put sink 1 back
\* although an argument called set_output_capture(Some(sink 2)) during the
\* write.
C31_Witness ==
    \E t \in Threads :
        /\ Len(stk[t]) = 1
        /\ At(t, "print_to", "ret")
        /\ Top(t).expect = 1
        /\ lastArg[t] = 2
        /\ slot[t] = 1

\* C31, second witness: a print made with sink 1 installed has unwound
\* after an argument installed sink 2: the slot still holds sink 2.
C31_WitnessUnwound ==
    \E t \in Threads :
        /\ Idle(t)
        /\ panicMsg[t] # NoPanic
        /\ sinkPoison[1]
        /\ lastArg[t] = 2
        /\ slot[t] = 2

\* C32: a print call whose write into the sink returned an error neither
\* panics nor turns to the global handle: it puts the sink back and
\* returns, and no byte of it reaches a global handle.
C32_SinkErrorDiscarded ==
    \A t \in Threads : \A f \in FramesOf(t) :
        f.sinkErr =>
            /\ f.pc \in {"sink_fmt", "ret"}
            /\ f.toGlobal = <<>>
            /\ f.err = "none"
            /\ f.pc = "ret" => slot[t] = f.sink

\* C32 witness: a print of "a{}{}b" into sink 1 is returning after its
\* first argument failed; the sink holds "a" and stdout received nothing.
C32_Witness ==
    \E t \in Threads :
        /\ At(t, "print_to", "ret")
        /\ Top(t).sinkErr
        /\ Top(t).sink = 1
        /\ sinkBuf[1] = <<"a">>
        /\ gOut["stdout"] = <<>>
        /\ panicMsg[t] = NoPanic

(***************************************************************************)
(* SpecConsole, continued.                                                 *)
(***************************************************************************)
\* The results that are neither a pass nor a failure.
Unlisted == {"TrIgnored", "TrAllowedFail", "TrBench"}

\* C34: passed is the length of not_failures and failed the sum of the
\* lengths of failures and time_failures, whatever events were handled; an
\* ignored, allowed-fail or benchmark result leaves the three lists as they
\* are.
C34_CountersMatchLists ==
    /\ [](/\ st.passed = Len(st.not_failures)
          /\ st.failed = Len(st.failures) + Len(st.time_failures))
    /\ [][\A i \in AllTests : \A r \in Unlisted :
            run_tests_result(i, r) => Lists(st') = Lists(st)]_vars

\* C34 witness: one failure, one timed failure and one ignored test have
\* been handled: failed is 2, the lists hold one entry each or none.
C34_Witness ==
    /\ st.failed = 2
    /\ st.ignored = 1
    /\ Len(st.failures) = 1
    /\ Len(st.time_failures) = 1
    /\ st.not_failures = <<>>

(***************************************************************************)
(* SpecReport: on_test_event handling TeResult statement by statement.     *)
(* run.ev is the completed test being handled, run.before the reporter     *)
(* state when the event arrived, run.calls the calls made for it so far    *)
(* (each with the state it saw) and run.io the outcome of the last write.  *)
(***************************************************************************)
NoTest == [desc |-> "", result |-> "", stdout |-> <<>>]

InitReport ==
    /\ InitOnce /\ InitStdout /\ InitRawIdle /\ InitCapture /\ InitStdin /\ InitStderr /\ InitTidy
    /\ st = ConsoleTestState_new(FALSE)
    /\ run = [pc |-> "none", tests |-> {}, phase |-> [i \in AllTests |-> "none"], seen |-> {}, nres |-> 0,
              ev |-> NoTest, before |-> ConsoleTestState_new(FALSE), calls |-> <<>>, io |-> "ok"]

Called(name) == Append(run.calls, [call |-> name, st |-> st])

\* run_tests delivers TeResult(completed_test) and on_test_event binds its
\* parts.
on_test_event_result(i, r) ==
    /\ run.pc = "running"
    /\ run.phase[i] \in {"wait", "timeout"}
    /\ run' = [run EXCEPT !.pc = "write_log_result", !.ev = CompletedTest(i, r),
                          !.before = st, !.calls = <<>>, !.io = "ok"]
    /\ UNCHANGED <<st, nonConsoleVars>>

\* st.write_log_result(test, result, exec_time)?  Without a log file
\* write_log returns Ok(()).
on_test_event_write_log_result ==
    /\ run.pc = "write_log_result"
    /\ \E io \in IF st.log_out THEN {"ok", "log"} ELSE {"ok"} :
          run' = [run EXCEPT !.calls = Called("write_log_result"), !.io = io,
                             !.pc = IF io = "ok" THEN "write_result" ELSE "err"]
    /\ UNCHANGED <<st, nonConsoleVars>>

\* Mutation of on_test_event_write_result: the test is counted before the
\* formatter is called.
on_test_event_write_result_CountsFirst ==
    /\ run.pc = "write_result"
    /\ st' = handle_test_result(st, run.ev)
    /\ \E io \in {"ok", "fmt"} :
          run' = [run EXCEPT !.calls = Append(@, [call |-> "write_result", st |-> st']), !.io = io,
                             !.pc = IF io = "ok" THEN "handle_test_result" ELSE "err"]
    /\ UNCHANGED nonConsoleVars

\* out.write_result(test, result, exec_time, stdout, st)?
on_test_event_write_result ==
    /\ run.pc = "write_result"
    /\ \E io \in {"ok", "fmt"} :
          run' = [run EXCEPT !.calls = Called("write_result"), !.io = io,
                             !.pc = IF io = "ok" THEN "handle_test_result" ELSE "err"]
    /\ UNCHANGED <<st, nonConsoleVars>>

\* handle_test_result(st, completed_test); Ok(())
on_test_event_handle_test_result ==
    /\ run.pc = "handle_test_result"
    /\ st' = handle_test_result(st, run.ev)
    /\ run' = [run EXCEPT !.calls = Called("handle_test_result"), !.pc = "running",
                          !.phase[run.ev.desc] = "done",
                          !.seen = @ \cup {<<run.ev.desc, run.ev.result>>}, !.nres = @ + 1]
    /\ UNCHANGED nonConsoleVars

NextReport ==
    \/ \E logfile \in BOOLEAN : \E tests \in SUBSET AllTests : run_tests_console(logfile, tests)
    \/ run_tests_filtered
    \/ run_tests_filtered_out
    \/ \E i \in AllTests : run_tests_wait(i)
    \/ \E i \in AllTests : run_tests_timeout(i)
    \/ \E i \in AllTests : \E r \in TestResults : on_test_event_result(i, r)
    \/ on_test_event_write_log_result
    \/ on_test_event_write_result
    \/ on_test_event_handle_test_result
    \/ run_tests_console_finish

SpecReport == InitReport /\ [][NextReport]_vars

\* The calls on_test_event makes for a result event, each with the state
\* the reporter had when the event arrived.
ResultCalls ==
    << [call |-> "write_log_result", st |-> run.before],
       [call |-> "write_result", st |-> run.before],
       [call |-> "handle_test_result", st |-> run.before] >>
Handled == Len(run.calls) = 3

\* C33: for a result event the reporter writes the log entry, then calls
\* write_result, then handle_test_result, and the first two see the
\* counters and lists the event found; until handle_test_result has run
\* the state is the one the event found; a failed log write or a failed
\* write_result ends the event with that error and the state unchanged, and
\* no later call is made.  What the event leaves and returns is what
\* on_test_event yields for it.
C33_ResultOrder ==
    run.ev # NoTest =>
        /\ IsPrefix(run.calls, ResultCalls)
        /\ ~Handled => st = run.before
        /\ Handled => st = handle_test_result(run.before, run.ev) /\ run.io = "ok"
        /\ run.io # "ok" <=> run.pc = "err" /\ ~Handled
        /\ run.io = "log" => Len(run.calls) = 1
        /\ run.io = "fmt" => Len(run.calls) = 2
        /\ Handled \/ run.pc = "err" =>
              Returned(st, IF run.io = "ok" THEN "Ok" ELSE "Err")
                  = on_test_event(run.before, TeResult(run.ev), run.io)

\* C33 witness: after one passed test was counted, the formatter failed on
\* the result of a failed test: the log entry was written, the event ended
\* with the error, and the reporter still counts one passed test only.
C33_Witness ==
    /\ run.pc = "err"
    /\ run.io = "fmt"
    /\ st.log_out
    /\ run.ev.result = "TrFailed"
    /\ Len(run.calls) = 2
    /\ st.passed = 1
    /\ st.failed = 0
    /\ st.failures = <<>>

\* C33, second witness: the log write failed and write_result was not
\* called.
C33_WitnessLog ==
    /\ run.pc = "err"
    /\ run.io = "log"
    /\ run.ev.result = "TrOk"
    /\ Len(run.calls) = 1
    /\ st.passed = 0
    /\ st.not_failures = <<>>

(***************************************************************************)
(* SpecRaw, continued.                                                     *)
(***************************************************************************)
\* C35: a raw adapter returns the result of its platform call as it is,
\* a success (whatever the count) or an error, unless that result is the
\* bad-descriptor error; and handle_ebadf applied to the platform result
\* yields its default exactly in that case, whatever the default.
C35_OthersPassThrough ==
    LastCall.n > 0 =>
        /\ ~BadDescriptor => rawRet = LastCall.sys
        /\ rawRet # LastCall.sys => BadDescriptor
        /\ \A d \in 0..(SumLen(LastCall.bufs) + 1) :
              handle_ebadf(LastCall.sys, d) = IF BadDescriptor THEN Ok(d) ELSE LastCall.sys

\* C35 witness: a write of two bytes on stderr failed with EIO, and the
\* adapter returned that error, not Ok(2).
C35_Witness ==
    /\ LastCall.stream = "stderr"
    /\ LastCall.op = "write"
    /\ SumLen(LastCall.bufs) = 2
    /\ LastCall.sys = Err("EIO")
    /\ rawRet = Err("EIO")
    /\ rawFd = LastCall.fdBefore

\* C35, second witness: a short write (one byte of two) is reported as it
\* is.
C35_WitnessShort ==
    /\ LastCall.stream = "stdout"
    /\ LastCall.op = "write"
    /\ SumLen(LastCall.bufs) = 2
    /\ rawRet = Ok(1)

(***************************************************************************)
(* SpecShutdown: cleanup() in a process whose threads call the accessors   *)
(* stdin(), stdout() and stderr(), or none of them.                        *)
(***************************************************************************)
NextShutdown ==
    \E t \in Threads :
        \/ \E k \in Kinds : CallAccessor(t, k)
        \/ Accessor(t)
        \/ CallCleanup(t)
        \/ cleanup(t)

SpecShutdown == Init /\ [][NextShutdown]_vars

InCleanup(t) == ~Idle(t) /\ Top(t).op = "cleanup"

\* C36: a cleanup() that finds no stdout instance returns at once: it
\* creates no instance, leaves the lock, the line writer and the raw stream
\* as they are and calls nothing; cleanup() gets past STDOUT.get() only when
\* stdout is initialized; and no step of cleanup() changes the cells or
\* instances of stdin and stderr, or the state of their handles.
C36_CleanupWithoutStdout ==
    /\ [][\A t \in Threads :
            cleanup_get(t) /\ once["stdout"] # "complete" =>
                /\ stk'[t] = <<>>
                /\ UNCHANGED <<onceVars, owner, count, lw, borrow, rawOut, guards, log>>]_vars
    /\ [](\A t \in Threads :
            InCleanup(t) /\ Top(t).pc # "get" => once["stdout"] = "complete")
    /\ [][\A t \in Threads :
            InCleanup(t) /\ stk'[t] # stk[t] =>
                /\ \A k \in {"stdin", "stderr"} :
                      once'[k] = once[k] /\ instance'[k] = instance[k] /\ created'[k] = created[k]
                /\ UNCHANGED <<handle, stdinVars, stderrVars>>]_vars

\* C36 witness: cleanup() has returned without finding stdout, in a process
\* that had used stderr: stdout is still uninitialized, nothing was written
\* and the lock is free.
C36_Witness ==
    /\ cleanupState = "noinstance"
    /\ once["stdout"] = "incomplete"
    /\ created["stdout"] = 0
    /\ once["stderr"] = "complete"
    /\ rawOut = <<>>
    /\ count = 0
    /\ \A t \in Threads : Idle(t)

====
